---- MODULE Spec2Model ----
(***************************************************************************)
(* Model of the EPICS archiver datasource backend (package main):          *)
(* QueryData / query, the payload decoding with its NaN sanitizing and     *)
(* string fallback, the unit conversions and the transforms.               *)
(*                                                                         *)
(* Representation.                                                         *)
(*  - A []byte is a sequence of chunks <<kind, text, num>>: punctuation,   *)
(*    one space, a quote, a run of letters, or an unsigned number literal. *)
(*    bytes.Replace and the JSON scanner work on that sequence.            *)
(*  - A time.Time is a number of ticks since the epoch, TicksPerSec ticks  *)
(*    to the second (sub-second offsets are multiples of one tick).        *)
(*  - A float64 is an extended rational <<n, d, p, r>> standing for        *)
(*    (n/d) * pi^p, rounded to the nearest multiple of 1/r when r > 0;     *)
(*    d = 0 stands for +Inf (n = 1), -Inf (n = -1) and NaN (n = 0).        *)
(*    Rounding error of float64 arithmetic is not modelled.                *)
(***************************************************************************)
EXTENDS Integers, Sequences, FiniteSets, TLC

\* ------------------------------------------------------------------ bounds
\* ticks per second of the modelled clock
TicksPerSec == 2
\* largest number of data rows of one data set of a reply
MaxRows == 2
\* queries of a batch
MaxBatch == 2

\* ------------------------------------------------------- program constants
UNIT_CONVERT_NONE == 0
UNIT_CONVERT_DEG_TO_RAD == 1
UNIT_CONVERT_RAD_TO_DEG == 2
UNIT_CONVERT_RAD_TO_ARCSEC == 3
UNIT_CONVERT_K_TO_C == 4
UNIT_CONVERT_C_TO_K == 5
UNIT_CONVERT_F_TO_C == 6
UNIT_CONVERT_C_TO_F == 7

TRANSFORM_NONE == 0
TRANSFORM_FIRST_DERIVATVE == 1
TRANSFORM_FIRST_DERIVATVE_1HZ == 2
TRANSFORM_FIRST_DERIVATVE_10HZ == 3
TRANSFORM_FIRST_DERIVATVE_100HZ == 4
TRANSFORM_DELTA == 5
TRANSFORM_TRUNCATE_FRAC_SECS == 6

\* ------------------------------------------------------------------ bytes
Pn(s) == <<"p", s, 0>>
SP == <<"sp", " ", 0>>
QT == <<"q", "\"", 0>>
Wd(s) == <<"w", s, 0>>
Nm(i) == <<"n", "", i>>
NmFrac(i, frac) == <<"n", frac, i>>

IsPrefixAt(s, i, pat) ==
    /\ i + Len(pat) - 1 <= Len(s)
    /\ \A k \in 1..Len(pat) : s[i + k - 1] = pat[k]

\* the first index >= i at which pat occurs in s, or 0
IndexFrom(s, i, pat) ==
    LET at == {j \in i..Len(s) : IsPrefixAt(s, j, pat)}
    IN  IF at = {} THEN 0 ELSE CHOOSE j \in at : \A k \in at : j <= k

RECURSIVE ReplaceFrom(_, _, _, _)
ReplaceFrom(s, i, old, new) ==
    LET j == IndexFrom(s, i, old)
    IN  IF j = 0 THEN SubSeq(s, i, Len(s))
        ELSE SubSeq(s, i, j - 1) \o new \o ReplaceFrom(s, j + Len(old), old, new)

\* bytes.Replace(s, old, new, -1) for a non-empty old
bytesReplace(s, old, new) == ReplaceFrom(s, 1, old, new)

NaNPattern == <<Pn(":"), SP, Wd("NaN")>>
NullPattern == <<Pn(":"), SP, Wd("null")>>

\* body = bytes.Replace(body, []byte(": NaN"), []byte(": null"), -1)
SanitizeNoop(body) == body
Sanitize(body) == bytesReplace(body, NaNPattern, NullPattern)

\* ------------------------------------------------------- encoding/json scan
NullNode == [t |-> "null", n |-> 0, f |-> "", s |-> <<>>, items |-> <<>>, keys |-> <<>>]
NumNode(c) == [NullNode EXCEPT !.t = "num", !.n = c[3], !.f = c[2]]
StrNode(cs) == [NullNode EXCEPT !.t = "str", !.s = cs]
BoolNode(v) == [NullNode EXCEPT !.t = "bool", !.n = IF v THEN 1 ELSE 0]
ArrNode(its) == [NullNode EXCEPT !.t = "arr", !.items = its]
ObjNode(ks, its) == [NullNode EXCEPT !.t = "obj", !.keys = ks, !.items = its]

ScanFail == [ok |-> FALSE, v |-> NullNode, next |-> 0]
ScanOk(v, next) == [ok |-> TRUE, v |-> v, next |-> next]

RECURSIVE SkipWs(_, _)
SkipWs(b, i) == IF i <= Len(b) /\ b[i] = SP THEN SkipWs(b, i + 1) ELSE i

RECURSIVE CloseQuote(_, _)
CloseQuote(b, i) ==
    IF i > Len(b) THEN 0 ELSE IF b[i] = QT THEN i ELSE CloseQuote(b, i + 1)

ScanStringTo(b, i, k) ==
    IF k = 0 THEN ScanFail ELSE ScanOk(StrNode(SubSeq(b, i + 1, k - 1)), k + 1)

\* a string literal starting at the quote b[i]
ScanString(b, i) == ScanStringTo(b, i, CloseQuote(b, i + 1))

RECURSIVE ScanValue(_, _)
RECURSIVE ScanElems(_, _, _)
RECURSIVE ScanMembers(_, _, _, _)

ScanArray(b, k) ==
    IF k <= Len(b) /\ b[k] = Pn("]") THEN ScanOk(ArrNode(<<>>), k + 1)
    ELSE ScanElems(b, k, <<>>)

ScanObject(b, k) ==
    IF k <= Len(b) /\ b[k] = Pn("}") THEN ScanOk(ObjNode(<<>>, <<>>), k + 1)
    ELSE ScanMembers(b, k, <<>>, <<>>)

ScanValueAt(b, j) ==
    IF j > Len(b) THEN ScanFail
    ELSE IF b[j] = Pn("[") THEN ScanArray(b, SkipWs(b, j + 1))
    ELSE IF b[j] = Pn("{") THEN ScanObject(b, SkipWs(b, j + 1))
    ELSE IF b[j] = QT THEN ScanString(b, j)
    ELSE IF b[j][1] = "n" THEN ScanOk(NumNode(b[j]), j + 1)
    ELSE IF b[j] = Wd("null") THEN ScanOk(NullNode, j + 1)
    ELSE IF b[j] \in {Wd("true"), Wd("false")} THEN ScanOk(BoolNode(b[j] = Wd("true")), j + 1)
    ELSE ScanFail

\* one JSON value, after white space
ScanValue(b, i) == ScanValueAt(b, SkipWs(b, i))

\* after an element r of an array: "," and more elements, or "]"
ScanElemsNext(b, r, k, acc) ==
    IF ~r.ok \/ k > Len(b) THEN ScanFail
    ELSE IF b[k] = Pn(",") THEN ScanElems(b, k + 1, Append(acc, r.v))
    ELSE IF b[k] = Pn("]") THEN ScanOk(ArrNode(Append(acc, r.v)), k + 1)
    ELSE ScanFail

ScanElemsAfter(b, r, acc) ==
    IF ~r.ok THEN ScanFail ELSE ScanElemsNext(b, r, SkipWs(b, r.next), acc)

\* the elements of an array from index i on
ScanElems(b, i, acc) == ScanElemsAfter(b, ScanValue(b, i), acc)

\* after a member key: r of an object: "," and more members, or "}"
ScanMembersNext(b, key, r, k, ks, acc) ==
    IF ~r.ok \/ k > Len(b) THEN ScanFail
    ELSE IF b[k] = Pn(",")
         THEN ScanMembers(b, k + 1, Append(ks, key.v.s), Append(acc, r.v))
    ELSE IF b[k] = Pn("}")
         THEN ScanOk(ObjNode(Append(ks, key.v.s), Append(acc, r.v)), k + 1)
    ELSE ScanFail

ScanMembersAfter(b, key, r, ks, acc) ==
    IF ~r.ok THEN ScanFail ELSE ScanMembersNext(b, key, r, SkipWs(b, r.next), ks, acc)

\* the ":" and the value of a member whose key was scanned
ScanMemberColon(b, key, c, ks, acc) ==
    IF c > Len(b) \/ b[c] # Pn(":") THEN ScanFail
    ELSE ScanMembersAfter(b, key, ScanValue(b, c + 1), ks, acc)

ScanMemberKey(b, key, ks, acc) ==
    IF ~key.ok THEN ScanFail ELSE ScanMemberColon(b, key, SkipWs(b, key.next), ks, acc)

ScanMembersAt(b, j, ks, acc) ==
    IF j > Len(b) \/ b[j] # QT THEN ScanFail
    ELSE ScanMemberKey(b, ScanString(b, j), ks, acc)

\* the members of an object from index i on
ScanMembers(b, i, ks, acc) == ScanMembersAt(b, SkipWs(b, i), ks, acc)

ScanEnd(b, r) == IF r.ok /\ SkipWs(b, r.next) = Len(b) + 1 THEN r ELSE ScanFail

\* checkValid: one value, then only white space up to the end of the input
ScanDocument(b) == ScanEnd(b, ScanValue(b, 1))

\* ------------------------------------------------------------- float64
RECURSIVE GCD(_, _)
GCD(a, b) == IF b = 0 THEN a ELSE GCD(b, a % b)
Abs(a) == IF a < 0 THEN -a ELSE a

\* (n/d) * pi^p in lowest terms; d = 0 is +Inf, -Inf or NaN by the sign of n
Flt(n, d, p) ==
    IF d = 0 THEN <<(IF n > 0 THEN 1 ELSE IF n < 0 THEN -1 ELSE 0), 0, 0, 0>>
    ELSE IF n = 0 THEN <<0, 1, 0, 0>>
    ELSE LET g == GCD(Abs(n), Abs(d))
             sg == IF d < 0 THEN -1 ELSE 1
         IN  <<sg * (n \div g), sg * (d \div g), p, 0>>

FZero == <<0, 1, 0, 0>>
IsFinite(x) == x[2] # 0
IsNaN(x) == x[2] = 0 /\ x[1] = 0

\* a - b, for finite a and b with the same power of pi (or zero)
FSub(a, b) ==
    Flt(a[1] * b[2] - b[1] * a[2], a[2] * b[2], IF a[1] = 0 THEN b[3] ELSE a[3])

\* a / (num/den) for a finite a: IEEE division, x/0 is +Inf, -Inf or NaN
FDivRat(a, num, den) == Flt(a[1] * den, a[2] * num, a[3])

\* math.Round of a rational n/d, d > 0: nearest integer, halves away from zero
RoundRat(n, d) ==
    IF n >= 0 THEN (2 * n + d) \div (2 * d) ELSE -((2 * (-n) + d) \div (2 * d))

\* math.Round(x * scale) / scale
FRound(x, scale) ==
    IF ~IsFinite(x) THEN x
    ELSE IF x[3] = 0 THEN Flt(RoundRat(x[1] * scale, x[2]), scale, 0)
    ELSE <<x[1], x[2], x[3], scale>>

\* ------------------------------------------------- encoding/json decode
\* json.Unmarshal fills the target as far as it can, remembers the first
\* *UnmarshalTypeError (or other recoverable error) and returns it at the end;
\* an error returned by literalStore ends the decoding at once.
SaveError(old, new) == IF old = "nil" THEN new ELSE old

Key(s) == <<Wd(s)>>

\* an int64 field (nanos, secs, severity, status)
DecodeInt(node, old) ==
    IF node.t = "null" THEN [err |-> "nil", v |-> old]
    ELSE IF node.t = "num" /\ node.f = "" THEN [err |-> "nil", v |-> node.n]
    ELSE [err |-> "UnmarshalTypeError", v |-> old]

\* the number literal i or i.5 as a float64
LiteralFloat(node) ==
    IF node.f = "" THEN Flt(node.n, 1, 0) ELSE Flt(2 * node.n + 1, 2, 0)

\* the val field: float64 in PVData, string in PVStringData
DecodeVal(node, old, schema) ==
    IF node.t = "null" THEN [err |-> "nil", v |-> old]
    ELSE IF schema = "PVData" /\ node.t = "num"
         THEN [err |-> "nil", v |-> LiteralFloat(node)]
    ELSE IF schema = "PVStringData" /\ node.t = "str"
         THEN [err |-> "nil", v |-> node.s]
    ELSE [err |-> "UnmarshalTypeError", v |-> old]

ZeroVal(schema) == IF schema = "PVData" THEN FZero ELSE <<>>
ZeroRow(schema) == [Nanos |-> 0, Secs |-> 0, Val |-> ZeroVal(schema)]

\* a member of a row object stored into the row; acc is [err, row]
StoreNanos(acc, r) ==
    [err |-> SaveError(acc.err, r.err), row |-> [acc.row EXCEPT !.Nanos = r.v]]
StoreSecs(acc, r) ==
    [err |-> SaveError(acc.err, r.err), row |-> [acc.row EXCEPT !.Secs = r.v]]
StoreVal(acc, r) ==
    [err |-> SaveError(acc.err, r.err), row |-> [acc.row EXCEPT !.Val = r.v]]
StoreUnused(acc, r) == [acc EXCEPT !.err = SaveError(acc.err, r.err)]

RowMember(key, val, schema, acc) ==
    IF key = Key("nanos") THEN StoreNanos(acc, DecodeInt(val, acc.row.Nanos))
    ELSE IF key = Key("secs") THEN StoreSecs(acc, DecodeInt(val, acc.row.Secs))
    ELSE IF key \in {Key("severity"), Key("status")} THEN StoreUnused(acc, DecodeInt(val, 0))
    ELSE IF key = Key("val") THEN StoreVal(acc, DecodeVal(val, acc.row.Val, schema))
    ELSE acc

RECURSIVE DecodeRowMembers(_, _, _, _)
DecodeRowMembers(node, k, schema, acc) ==
    IF k > Len(node.keys) THEN acc
    ELSE DecodeRowMembers(node, k + 1, schema,
                          RowMember(node.keys[k], node.items[k], schema, acc))

\* one element of Data
DecodeRow(node, schema) ==
    IF node.t = "null" THEN [err |-> "nil", row |-> ZeroRow(schema)]
    ELSE IF node.t = "obj"
         THEN DecodeRowMembers(node, 1, schema, [err |-> "nil", row |-> ZeroRow(schema)])
    ELSE [err |-> "UnmarshalTypeError", row |-> ZeroRow(schema)]

AddRow(acc, r) == [err |-> SaveError(acc.err, r.err), rows |-> Append(acc.rows, r.row)]

RECURSIVE DecodeRows(_, _, _, _)
DecodeRows(items, k, schema, acc) ==
    IF k > Len(items) THEN acc
    ELSE DecodeRows(items, k + 1, schema, AddRow(acc, DecodeRow(items[k], schema)))

\* the Data field: []struct
DecodeData(node, schema) ==
    IF node.t = "null" THEN [err |-> "nil", rows |-> <<>>]
    ELSE IF node.t = "arr"
         THEN DecodeRows(node.items, 1, schema, [err |-> "nil", rows |-> <<>>])
    ELSE [err |-> "UnmarshalTypeError", rows |-> <<>>]

\* Meta.PREC, float64 with the ",string" option: a quoted number is stored;
\* a quoted non-number makes literalStore return an error (abort); an
\* unquoted value is a saved "invalid use of ,string struct tag" error
DecodePREC(node) ==
    IF node.t = "null" THEN [abort |-> FALSE, err |-> "nil"]
    ELSE IF node.t = "str" THEN
        IF Len(node.s) = 1 /\ node.s[1][1] = "n" THEN [abort |-> FALSE, err |-> "nil"]
        ELSE IF Len(node.s) = 0 THEN [abort |-> FALSE, err |-> "InvalidStringTag"]
        ELSE [abort |-> TRUE, err |-> "InvalidStringTag"]
    ELSE [abort |-> FALSE, err |-> "InvalidStringTag"]

\* Meta.Name, string
DecodeName(node) ==
    [abort |-> FALSE,
     err |-> IF node.t \in {"null", "str"} THEN "nil" ELSE "UnmarshalTypeError"]

\* an error r met while decoding, acc being [abort, err, ...]: a returned
\* error ends the decoding and is the result, a saved one is kept if the first
Merge(acc, r) ==
    IF r.abort THEN [acc EXCEPT !.abort = TRUE, !.err = r.err]
    ELSE [acc EXCEPT !.err = SaveError(acc.err, r.err)]

MetaMember(key, val, acc) ==
    IF key = Key("PREC") THEN Merge(acc, DecodePREC(val))
    ELSE IF key = Key("name") THEN Merge(acc, DecodeName(val))
    ELSE acc

RECURSIVE DecodeMetaMembers(_, _, _)
DecodeMetaMembers(node, k, acc) ==
    IF k > Len(node.keys) \/ acc.abort THEN acc
    ELSE DecodeMetaMembers(node, k + 1, MetaMember(node.keys[k], node.items[k], acc))

\* the Meta field: struct
DecodeMeta(node) ==
    IF node.t = "null" THEN [abort |-> FALSE, err |-> "nil"]
    ELSE IF node.t = "obj" THEN DecodeMetaMembers(node, 1, [abort |-> FALSE, err |-> "nil"])
    ELSE [abort |-> FALSE, err |-> "UnmarshalTypeError"]

StoreData(acc, r) == [acc EXCEPT !.err = SaveError(acc.err, r.err), !.Data = r.rows]

SetMember(key, val, schema, acc) ==
    IF key = Key("data") THEN StoreData(acc, DecodeData(val, schema))
    ELSE IF key = Key("meta") THEN Merge(acc, DecodeMeta(val))
    ELSE acc

RECURSIVE DecodeSetMembers(_, _, _, _)
DecodeSetMembers(node, k, schema, acc) ==
    IF k > Len(node.keys) \/ acc.abort THEN acc
    ELSE DecodeSetMembers(node, k + 1, schema,
                          SetMember(node.keys[k], node.items[k], schema, acc))

\* one element of PVData / PVStringData
DecodeSet(node, schema) ==
    IF node.t = "null" THEN [abort |-> FALSE, err |-> "nil", Data |-> <<>>]
    ELSE IF node.t = "obj"
         THEN DecodeSetMembers(node, 1, schema, [abort |-> FALSE, err |-> "nil", Data |-> <<>>])
    ELSE [abort |-> FALSE, err |-> "UnmarshalTypeError", Data |-> <<>>]

AddSet(acc, r) ==
    IF r.abort THEN [acc EXCEPT !.abort = TRUE, !.err = r.err]
    ELSE [acc EXCEPT !.err = SaveError(acc.err, r.err),
                     !.sets = Append(acc.sets, [Data |-> r.Data])]

RECURSIVE DecodeSets(_, _, _, _)
DecodeSets(items, k, schema, acc) ==
    IF k > Len(items) \/ acc.abort THEN acc
    ELSE DecodeSets(items, k + 1, schema, AddSet(acc, DecodeSet(items[k], schema)))

Decoded(r) == [err |-> r.err, sets |-> r.sets]

UnmarshalDocument(doc, schema) ==
    IF ~doc.ok THEN [err |-> "SyntaxError", sets |-> <<>>]
    ELSE IF doc.v.t = "null" THEN [err |-> "nil", sets |-> <<>>]
    ELSE IF doc.v.t = "arr"
         THEN Decoded(DecodeSets(doc.v.items, 1, schema,
                                 [abort |-> FALSE, err |-> "nil", sets |-> <<>>]))
    ELSE [err |-> "UnmarshalTypeError", sets |-> <<>>]

\* json.Unmarshal(body, &pvdata) and json.Unmarshal(body, &pvsdata):
\* err is "nil", "SyntaxError", "UnmarshalTypeError" or "InvalidStringTag"
Unmarshal(body, schema) == UnmarshalDocument(ScanDocument(body), schema)

\* ------------------------------------------------------------ queryModel
\* query.JSON is the document of the query as json scans it (a node), or
\* MalformedJSON for bytes that are no JSON document
MalformedJSON == [NullNode EXCEPT !.t = "malformed"]

ZeroQueryModel ==
    [Format |-> <<>>, QueryText |-> <<>>, UnitConversion |-> 0, Transform |-> 0,
     DisableBinning |-> FALSE, RefId |-> <<>>, Hide |-> FALSE]

DecodeString(node, old) ==
    IF node.t = "null" THEN [err |-> "nil", v |-> old]
    ELSE IF node.t = "str" THEN [err |-> "nil", v |-> node.s]
    ELSE [err |-> "UnmarshalTypeError", v |-> old]

DecodeBool(node, old) ==
    IF node.t = "null" THEN [err |-> "nil", v |-> old]
    ELSE IF node.t = "bool" THEN [err |-> "nil", v |-> (node.n = 1)]
    ELSE [err |-> "UnmarshalTypeError", v |-> old]

\* a member of the query document stored into qm; acc is [err, qm]
Stored(acc, r, qm) == [err |-> SaveError(acc.err, r.err), qm |-> qm]

StoreFormat(acc, r) == Stored(acc, r, [acc.qm EXCEPT !.Format = r.v])
StoreQueryText(acc, r) == Stored(acc, r, [acc.qm EXCEPT !.QueryText = r.v])
StoreUnitConversion(acc, r) == Stored(acc, r, [acc.qm EXCEPT !.UnitConversion = r.v])
StoreTransform(acc, r) == Stored(acc, r, [acc.qm EXCEPT !.Transform = r.v])
StoreDisableBinning(acc, r) == Stored(acc, r, [acc.qm EXCEPT !.DisableBinning = r.v])
StoreRefId(acc, r) == Stored(acc, r, [acc.qm EXCEPT !.RefId = r.v])
StoreHide(acc, r) == Stored(acc, r, [acc.qm EXCEPT !.Hide = r.v])

QueryMember(key, val, acc) ==
    IF key = Key("format") THEN StoreFormat(acc, DecodeString(val, acc.qm.Format))
    ELSE IF key = Key("queryText")
         THEN StoreQueryText(acc, DecodeString(val, acc.qm.QueryText))
    ELSE IF key = Key("unitConversion")
         THEN StoreUnitConversion(acc, DecodeInt(val, acc.qm.UnitConversion))
    ELSE IF key = Key("transform")
         THEN StoreTransform(acc, DecodeInt(val, acc.qm.Transform))
    ELSE IF key = Key("disablebinning")
         THEN StoreDisableBinning(acc, DecodeBool(val, acc.qm.DisableBinning))
    ELSE IF key = Key("refId") THEN StoreRefId(acc, DecodeString(val, acc.qm.RefId))
    ELSE IF key = Key("hide") THEN StoreHide(acc, DecodeBool(val, acc.qm.Hide))
    ELSE IF key \in {Key("intervalMs"), Key("maxDataPoints"), Key("orgId")}
         THEN Stored(acc, DecodeInt(val, 0), acc.qm)
    ELSE acc

RECURSIVE DecodeQueryMembers(_, _, _)
DecodeQueryMembers(node, k, acc) ==
    IF k > Len(node.keys) THEN acc
    ELSE DecodeQueryMembers(node, k + 1, QueryMember(node.keys[k], node.items[k], acc))

\* json.Unmarshal(query.JSON, &qm)
UnmarshalQuery(json) ==
    IF json.t = "malformed" THEN [err |-> "SyntaxError", qm |-> ZeroQueryModel]
    ELSE IF json.t = "null" THEN [err |-> "nil", qm |-> ZeroQueryModel]
    ELSE IF json.t = "obj"
         THEN DecodeQueryMembers(json, 1, [err |-> "nil", qm |-> ZeroQueryModel])
    ELSE [err |-> "UnmarshalTypeError", qm |-> ZeroQueryModel]

\* ------------------------------------------------------------ data frames
Field(name, type, values) == [Name |-> name, Type |-> type, Values |-> values]
NewFrame(name) == [Name |-> name, RefID |-> <<>>, Fields |-> <<>>]

\* empty_frame: the frame "response" with the two ends of the time range
EmptyFrame(query) ==
    [NewFrame("response") EXCEPT
        !.Fields = <<Field("time", "time", <<query.TimeRange.From, query.TimeRange.To>>)>>]

NoResponse == [Frames |-> <<>>, Error |-> "nil"]

\* response.Frames = append(response.Frames, empty_frame); response.Error = err
Placeholder(query, err) == [Frames |-> <<EmptyFrame(query)>>, Error |-> err]

\* ------------------------------------------------------ bin-size selection
\* floor(a / b) for integers a and b, b # 0
FloorDiv(a, b) == IF b > 0 THEN a \div b ELSE (-a) \div (-b)

\* binsize := math.Floor(querylength / float64(query.MaxDataPoints)), with
\* querylength the seconds of To - From: <<"fin", n>>, or the IEEE result of
\* a division by zero <<"+Inf", 0>>, <<"-Inf", 0>>, <<"NaN", 0>>
BinsizeCeil(query) ==
    LET ticks == query.TimeRange.To - query.TimeRange.From
        mdp == query.MaxDataPoints
    IN  IF mdp # 0 THEN <<"fin", -FloorDiv(-ticks, TicksPerSec * mdp)>>
        ELSE <<"fin", 0>>
Binsize(query) ==
    LET ticks == query.TimeRange.To - query.TimeRange.From
        mdp == query.MaxDataPoints
    IN  IF mdp # 0 THEN <<"fin", FloorDiv(ticks, TicksPerSec * mdp)>>
        ELSE IF ticks > 0 THEN <<"+Inf", 0>>
        ELSE IF ticks < 0 THEN <<"-Inf", 0>>
        ELSE <<"NaN", 0>>

\* the values sampleRate can take: <<"n", k>>, or <<"min", 0>> / <<"max", 0>>
\* for math.MinInt64 / math.MaxInt64.  int64(binsize) of an infinity or a NaN
\* is implementation-dependent in Go
SampleRatesBinFirst(query, qm) ==
    LET binsize == Binsize(query)
    IN  IF binsize[1] = "fin" /\ binsize[2] >= 1 THEN {<<"n", binsize[2]>>}
        ELSE {<<"n", 0>>}
SampleRates(query, qm) ==
    LET binsize == Binsize(query)
    IN  IF qm.DisableBinning THEN {<<"n", 0>>}
        ELSE IF binsize[1] = "-Inf" \/ (binsize[1] = "fin" /\ binsize[2] < 1)
             THEN {<<"n", 0>>}
        ELSE IF binsize[1] = "fin" THEN {<<"n", binsize[2]>>}
        ELSE {<<"min", 0>>, <<"max", 0>>, <<"n", 0>>}

\* sampleRate > 0
Positive(sampleRate) ==
    sampleRate[1] = "max" \/ (sampleRate[1] = "n" /\ sampleRate[2] > 0)

\* the pv parameter: lastSample_<sampleRate>(<channel>) or the channel
PvParam(sampleRate, channel) ==
    IF Positive(sampleRate)
    THEN [fn |-> "lastSample", N |-> sampleRate, channel |-> channel]
    ELSE [fn |-> "", N |-> <<"n", 0>>, channel |-> channel]

\* http.NewRequest fails when the URL does not parse; with the fixed path and
\* the encoded parameters that is decided by the host and the port
ValidHostPort(server, dataport) ==
    /\ server # "bad host"
    /\ dataport \in {"", "17668"}

\* the GET request of a query
GetData(server, dataport, query, pv) ==
    [Method |-> "GET", server |-> server, port |-> dataport,
     path |-> "/retrieval/data/getData.json",
     from |-> <<"RFC3339Nano", query.TimeRange.From>>,
     to |-> <<"RFC3339Nano", query.TimeRange.To>>,
     pv |-> pv]

\* ------------------------------------------------- samples of the reply
RECURSIVE FlattenLastFirst(_, _)
FlattenLastFirst(sets, k) ==
    IF k > Len(sets) THEN <<>> ELSE FlattenLastFirst(sets, k + 1) \o sets[k].Data
RECURSIVE Flatten(_, _)
\* the rows of all data sets, in the order of the two nested range loops
Flatten(sets, k) == IF k > Len(sets) THEN <<>> ELSE sets[k].Data \o Flatten(sets, k + 1)

\* time.Unix(secs, nanos), nanos counted in ticks
Unix(secs, nanos) == secs * TicksPerSec + nanos

\* times[i] of a row
RowTimeNoTruncate(row, transform) == Unix(row.Secs, row.Nanos)
RowTime(row, transform) ==
    IF transform = TRANSFORM_TRUNCATE_FRAC_SECS
    THEN Unix(row.Secs, 0)
    ELSE Unix(row.Secs, row.Nanos)

KnownUnitConversion(code) == code \in UNIT_CONVERT_NONE..UNIT_CONVERT_C_TO_F

\* the unit conversion switch, for a finite val
ConvertSwapped(code, val) ==
    LET n == val[1]
        d == val[2]
    IN  CASE code = UNIT_CONVERT_NONE -> val
          [] code = UNIT_CONVERT_DEG_TO_RAD -> Flt(n, d * 180, 1)
          [] code = UNIT_CONVERT_RAD_TO_DEG -> Flt(n * 180, d, -1)
          [] code = UNIT_CONVERT_RAD_TO_ARCSEC -> Flt(n * (3600 * 180), d, -1)
          [] code = UNIT_CONVERT_K_TO_C -> Flt(n * 20 - 5463 * d, d * 20, 0)
          [] code = UNIT_CONVERT_C_TO_K -> Flt(n * 20 + 5463 * d, d * 20, 0)
          [] code = UNIT_CONVERT_F_TO_C -> Flt((n - 32 * d) * 5, d * 9, 0)
          [] code = UNIT_CONVERT_C_TO_F -> Flt(n * 9 + 160 * d, d * 5, 0)
Convert(code, val) ==
    LET n == val[1]
        d == val[2]
    IN  CASE code = UNIT_CONVERT_NONE -> val
          [] code = UNIT_CONVERT_DEG_TO_RAD -> Flt(n, d * 180, 1)
          [] code = UNIT_CONVERT_RAD_TO_DEG -> Flt(n * 180, d, -1)
          [] code = UNIT_CONVERT_RAD_TO_ARCSEC -> Flt(n * (3600 * 180), d, -1)
          [] code = UNIT_CONVERT_K_TO_C -> Flt(n * 20 + 5463 * d, d * 20, 0)
          [] code = UNIT_CONVERT_C_TO_K -> Flt(n * 20 - 5463 * d, d * 20, 0)
          [] code = UNIT_CONVERT_F_TO_C -> Flt((n - 32 * d) * 5, d * 9, 0)
          [] code = UNIT_CONVERT_C_TO_F -> Flt(n * 9 + 160 * d, d * 5, 0)

\* math.Floor(x * scale) / scale
FFloor(x, scale) ==
    IF ~IsFinite(x) \/ x[3] # 0 THEN x
    ELSE Flt(FloorDiv(x[1] * scale, x[2]), scale, 0)

\* the rounding of the 1Hz, 10Hz and 100Hz variants
RoundForFloor(transform, dvdt) ==
    IF transform = TRANSFORM_FIRST_DERIVATVE_1HZ THEN FFloor(dvdt, 1)
    ELSE IF transform = TRANSFORM_FIRST_DERIVATVE_10HZ THEN FFloor(dvdt, 10)
    ELSE IF transform = TRANSFORM_FIRST_DERIVATVE_100HZ THEN FFloor(dvdt, 100)
    ELSE dvdt
RoundFor(transform, dvdt) ==
    IF transform = TRANSFORM_FIRST_DERIVATVE_1HZ THEN FRound(dvdt, 1)
    ELSE IF transform = TRANSFORM_FIRST_DERIVATVE_10HZ THEN FRound(dvdt, 10)
    ELSE IF transform = TRANSFORM_FIRST_DERIVATVE_100HZ THEN FRound(dvdt, 100)
    ELSE dvdt

\* dvalues[i-1] of the first-derivative case of the transform switch
DerivativeValue(times, values, i, transform) ==
    RoundFor(transform,
             FDivRat(FSub(values[i], values[i - 1]), times[i] - times[i - 1], TicksPerSec))

\* the first-derivative case of the transform switch, count >= 1
FirstDerivativeLeftEdge(times, values, transform) ==
    [times |-> [i \in 1..(Len(times) - 1) |-> times[i]],
     values |-> [i \in 1..(Len(times) - 1) |->
                    DerivativeValue(times, values, i + 1, transform)]]
FirstDerivative(times, values, transform) ==
    [times |-> [i \in 1..(Len(times) - 1) |-> times[i + 1]],
     values |-> [i \in 1..(Len(times) - 1) |->
                    DerivativeValue(times, values, i + 1, transform)]]

\* the delta case of the transform switch, count >= 1
DeltaKeepTimes(times, values) ==
    [times |-> times,
     values |-> [i \in 1..(Len(times) - 1) |-> FSub(values[i + 1], values[i])]]
DeltaPerSecond(times, values) ==
    [times |-> [i \in 1..(Len(times) - 1) |-> times[i + 1]],
     values |-> [i \in 1..(Len(times) - 1) |->
                    FDivRat(FSub(values[i + 1], values[i]), times[i + 1] - times[i],
                            TicksPerSec)]]
Delta(times, values) ==
    [times |-> [i \in 1..(Len(times) - 1) |-> times[i + 1]],
     values |-> [i \in 1..(Len(times) - 1) |-> FSub(values[i + 1], values[i])]]

Derivatives ==
    {TRANSFORM_FIRST_DERIVATVE, TRANSFORM_FIRST_DERIVATVE_1HZ,
     TRANSFORM_FIRST_DERIVATVE_10HZ, TRANSFORM_FIRST_DERIVATVE_100HZ}

\* the frame of the numeric path
NumericFrameUnnamed(qm, times, values) ==
    [NewFrame("response") EXCEPT
        !.Fields = <<Field("Value", "float64", values), Field("Time", "time", times)>>]
NumericFrame(qm, times, values) ==
    [NewFrame("response") EXCEPT
        !.RefID = qm.RefId,
        !.Name = qm.QueryText,
        !.Fields = <<Field("Value", "float64", values), Field("Time", "time", times)>>]

Result(response) == [panic |-> FALSE, response |-> response]
\* make([]time.Time, count-1) with count = 0: makeslice: len out of range
Panic == [panic |-> TRUE, response |-> NoResponse]

FrameResult(qm, series) ==
    Result([Frames |-> <<NumericFrame(qm, series.times, series.values)>>, Error |-> "nil"])

\* the transform switch and the frame assembly
TransformSwitch(query, qm, times, values) ==
    IF qm.Transform \in {TRANSFORM_NONE, TRANSFORM_TRUNCATE_FRAC_SECS}
    THEN FrameResult(qm, [times |-> times, values |-> values])
    ELSE IF qm.Transform \in Derivatives
    THEN IF Len(times) = 0 THEN Panic
         ELSE FrameResult(qm, FirstDerivative(times, values, qm.Transform))
    ELSE IF qm.Transform = TRANSFORM_DELTA
    THEN IF Len(times) = 0 THEN Panic ELSE FrameResult(qm, Delta(times, values))
    ELSE Result(Placeholder(query, "Unknown transform"))

Times(rows, transform) == [i \in 1..Len(rows) |-> RowTime(rows[i], transform)]
ValuesZeroAsIs(rows, code) ==
    [i \in 1..Len(rows) |->
        IF rows[i].Val = FZero THEN FZero ELSE Convert(code, rows[i].Val)]
Values(rows, code) == [i \in 1..Len(rows) |-> Convert(code, rows[i].Val)]

\* the loop over the rows: the default case of the unit conversion switch is
\* reached with the first row
ConvertRows(query, qm, rows) ==
    IF Len(rows) > 0 /\ ~KnownUnitConversion(qm.UnitConversion)
    THEN Result(Placeholder(query, "Unknown unit conversion"))
    ELSE TransformSwitch(query, qm, Times(rows, qm.Transform),
                         Values(rows, qm.UnitConversion))

\* the numeric path of query, after json.Unmarshal(body, &pvdata) succeeded
NumericPath(query, qm, pvdata) == ConvertRows(query, qm, Flatten(pvdata, 1))

\* the frame of the string path
StringFrame(qm, times, values) ==
    [NewFrame("response") EXCEPT
        !.RefID = qm.RefId,
        !.Name = qm.QueryText,
        !.Fields = <<Field("time", "time", times), Field("values", "string", values)>>]

Strings(rows) == [i \in 1..Len(rows) |-> rows[i].Val]

StringRows(query, qm, rows) ==
    Result([Frames |-> <<StringFrame(qm, Times(rows, qm.Transform), Strings(rows))>>,
            Error |-> "nil"])

\* the string path of query, after json.Unmarshal(body, &pvsdata) succeeded
StringPath(query, qm, pvsdata) == StringRows(query, qm, Flatten(pvsdata, 1))

\* _, ok := err.(*json.UnmarshalTypeError)
IsAnyError(err) == err # "nil"
IsUnmarshalTypeError(err) == err = "UnmarshalTypeError"

\* the second json.Unmarshal, into pvsdata: first is the record of the first call
DecodeStrings(body, first, str) ==
    IF str.err = "nil"
    THEN [calls |-> <<first, <<"PVStringData", body, "nil">>>>, path |-> "string",
          data |-> str.sets, err |-> "nil"]
    ELSE [calls |-> <<first, <<"PVStringData", body, str.err>>>>, path |-> "failed",
          data |-> <<>>, err |-> str.err]

\* what follows the first json.Unmarshal, into pvdata
DecodeFloats(body, num) ==
    IF num.err = "nil"
    THEN [calls |-> <<<<"PVData", body, "nil">>>>, path |-> "numeric",
          data |-> num.sets, err |-> "nil"]
    ELSE IF IsUnmarshalTypeError(num.err)
    THEN DecodeStrings(body, <<"PVData", body, num.err>>, Unmarshal(body, "PVStringData"))
    ELSE [calls |-> <<<<"PVData", body, num.err>>>>, path |-> "failed",
          data |-> <<>>, err |-> num.err]

\* the decoding of the sanitized body: the calls of json.Unmarshal made, each
\* <<schema, bytes, error>>, the path taken and the decoded data sets
Decode(body) == DecodeFloats(body, Unmarshal(body, "PVData"))

WithCalls(r, calls) == [panic |-> r.panic, response |-> r.response, calls |-> calls]

Decoding(query, qm, dec) ==
    WithCalls(IF dec.path = "numeric" THEN NumericPath(query, qm, dec.data)
              ELSE IF dec.path = "string" THEN StringPath(query, qm, dec.data)
              ELSE Result(Placeholder(query, dec.err)),
              dec.calls)

\* query from the return of client.Do on: reply is what the archive answered,
\* [doErr, StatusCode, readErr, Body]
QueryReplyChecked(query, qm, reply) ==
    IF reply.doErr THEN WithCalls(Result(Placeholder(query, "client.Do")), <<>>)
    ELSE IF reply.StatusCode \notin 200..299
    THEN WithCalls(Result(Placeholder(query, "status")), <<>>)
    ELSE IF reply.readErr THEN WithCalls(Result(Placeholder(query, "ReadAll")), <<>>)
    ELSE Decoding(query, qm, Decode(Sanitize(reply.Body)))
QueryReply(query, qm, reply) ==
    IF reply.doErr THEN WithCalls(Result(Placeholder(query, "client.Do")), <<>>)
    ELSE IF reply.readErr THEN WithCalls(Result(Placeholder(query, "ReadAll")), <<>>)
    ELSE Decoding(query, qm, Decode(Sanitize(reply.Body)))

\* query up to the call of client.Do: the set of ways it can go on, each
\* [kind, response, qm, httpreq] with kind "return" (query returns response),
\* "do" (httpreq is sent) or "panic" (client.Do of the nil request that
\* http.NewRequest returned with its ignored error)
NoRequest == GetData("", "", [TimeRange |-> [From |-> 0, To |-> 0]], PvParam(<<"n", 0>>, <<>>))
Return(response, qm) ==
    [kind |-> "return", response |-> response, qm |-> qm, httpreq |-> NoRequest]

Fetch(query, qm, server, dataport) ==
    {IF ValidHostPort(server, dataport)
     THEN [kind |-> "do", response |-> NoResponse, qm |-> qm,
           httpreq |-> GetData(server, dataport, query, PvParam(sampleRate, qm.QueryText))]
     ELSE [kind |-> "panic", response |-> NoResponse, qm |-> qm, httpreq |-> NoRequest]
     : sampleRate \in SampleRates(query, qm)}

QueryModelledAlways(query, server, dataport, u) ==
    IF u.err # "nil" THEN {Return([Frames |-> <<>>, Error |-> u.err], u.qm)}
    ELSE IF u.qm.Hide THEN {Return(NoResponse, u.qm)}
    ELSE Fetch(query, u.qm, server, dataport)
QueryModelledHideLast(query, server, dataport, u) ==
    IF u.err # "nil" THEN {Return([Frames |-> <<>>, Error |-> u.err], u.qm)}
    ELSE IF u.qm.QueryText = <<>> THEN {Return(Placeholder(query, "nil"), u.qm)}
    ELSE IF u.qm.Hide THEN {Return(NoResponse, u.qm)}
    ELSE Fetch(query, u.qm, server, dataport)
QueryModelled(query, server, dataport, u) ==
    IF u.err # "nil" THEN {Return([Frames |-> <<>>, Error |-> u.err], u.qm)}
    ELSE IF u.qm.Hide THEN {Return(NoResponse, u.qm)}
    ELSE IF u.qm.QueryText = <<>> THEN {Return(Placeholder(query, "nil"), u.qm)}
    ELSE Fetch(query, u.qm, server, dataport)

QueryStart(query, server, dataport) ==
    QueryModelled(query, server, dataport, UnmarshalQuery(query.JSON))

\* ------------------------------------------------------------- settings
ZeroSettings == [Server |-> "", ManagePort |-> "", DataPort |-> ""]

\* LoadSettings: JSONData is [err, model], the outcome of json.Unmarshal of
\* the instance settings into DatasourceSettings
LoadSettings(ctx) ==
    IF ctx.JSONData.err # "nil"
    THEN [err |-> "error reading settings", model |-> ZeroSettings]
    ELSE [err |-> "nil", model |-> ctx.JSONData.model]

\* ------------------------------------------------------- QueryEditor.tsx
\* An EPICSQuery object of the editor: the members the editor reads and
\* writes, each Undefined or Val(v).
Undefined == <<>>
Val(v) == <<v>>
NoObject == [id |-> -1, q |-> <<>>]
NewObject(id, q) == [id |-> id, q |-> q]

\* the query of a new panel row: no member of EPICSQuery is set
NewQuery ==
    [queryText |-> Undefined, system |-> Undefined, channel |-> Undefined,
     unitConversion |-> Undefined, transform |-> Undefined,
     disablebinning |-> Undefined]

defaultQuery ==
    [unitConversion |-> Val(0), transform |-> Val(0), disablebinning |-> Val(FALSE)]

\* lodash defaults(object, source): sets the members of source that are
\* undefined in object
Defaults(object, source) ==
    [m \in DOMAIN object |->
        IF m \in DOMAIN source /\ object[m] = Undefined THEN source[m] ELSE object[m]]

\* { ...query, member: value }
Spread(query, member, value) == [query EXCEPT ![member] = Val(value)]

\* ------------------------------------------------------- resource calls
StatusOK == 200
StatusBadRequest == 400
StatusInternalServerError == 500

\* an http.ResponseWriter: the status and the bodies that went out
NewWriter == [wroteHeader |-> FALSE, status |-> 0, body |-> <<>>]

\* rw.WriteHeader(code): the first call sends the status, a later one does
\* nothing
WriteHeader(w, code) ==
    IF w.wroteHeader THEN w ELSE [w EXCEPT !.wroteHeader = TRUE, !.status = code]

\* rw.Write(body): sends the header with http.StatusOK if none was sent yet,
\* then the body, unless the write fails
Write(w, body, failed) ==
    IF failed THEN WriteHeader(w, StatusOK)
    ELSE [WriteHeader(w, StatusOK) EXCEPT !.body = Append(@, body)]

\* the values of the response map: nil, a string, a map[string]string
Nil == <<"nil">>
Str(v) == <<"string", v>>
Map(f) == <<"map", f>>

\* writeResult up to json.Marshal: the response map, as [key, val], and code
ResultMap(path, val, err) ==
    IF err # "nil"
    THEN [code |-> StatusBadRequest, response |-> [key |-> "error", val |-> Str(err)]]
    ELSE [code |-> StatusOK, response |-> [key |-> path, val |-> val]]

\* json.Marshal(response): a map of one string key does not fail
Marshal(response) == <<"json", response>>

\* the arguments of a call of writeResult and its variable code
WriteResultCall(path, val, err) == [path |-> path, val |-> val, err |-> err, code |-> 0]
NoCall == WriteResultCall("", Nil, "nil")

\* strings.Contains(s, sub), both sequences of chunks
Contains(s, sub) ==
    \E i \in 1..(Len(s) + 1) :
        i + Len(sub) - 1 <= Len(s) /\ SubSeq(s, i, i + Len(sub) - 1) = sub

\* the channels whose name contains system, as the map channel -> channel
ChannelsOf(allchannels, system) ==
    LET names == {allchannels[i] : i \in {k \in 1..Len(allchannels) :
                                            Contains(allchannels[k], system)}}
    IN  [c \in names |-> c]

\* len(strings.Split(channel, ":"))
Segments(channel) == Cardinality({i \in 1..Len(channel) : channel[i] = Pn(":")}) + 1

\* strings.Join(segs[:len(segs)-1], ":") + ":", the name up to its last colon
SystemOf(channel) ==
    SubSeq(channel, 1, CHOOSE i \in 1..Len(channel) :
                            /\ channel[i] = Pn(":")
                            /\ \A k \in (i + 1)..Len(channel) : channel[k] # Pn(":"))

\* the systems map: "" -> "(none)" and every system of a channel name of 3 or
\* 4 segments
SystemsOf(channels) ==
    LET names == {SystemOf(channels[i]) : i \in {k \in 1..Len(channels) :
                                                    Segments(channels[k]) \in {3, 4}}}
    IN  [c \in names \cup {<<>>} |-> IF c = <<>> THEN <<Wd("(none)")>> ELSE c]

\* http.NewRequest on the getPVStatus URL fails when the URL does not parse
ValidManageURL(server, manageport) ==
    /\ server # "bad host"
    /\ manageport \in {"", "17665"}

\* GetArchiverChannels from the return of client.Do on: reply is
\* [doErr, StatusCode, readErr, Body], the Body a list of PV names or no JSON
GetArchiverChannels(reply) ==
    IF reply.doErr THEN [channels |-> <<>>, err |-> "client.Do"]
    ELSE IF reply.readErr THEN [channels |-> <<>>, err |-> "ReadAll"]
    ELSE IF reply.Body.err # "nil" THEN [channels |-> <<>>, err |-> reply.Body.err]
    ELSE [channels |-> reply.Body.pvs, err |-> "nil"]

\* client.Do returned a response: its Body is open until it is closed
Opened(n, reply) == IF reply.doErr THEN n ELSE n + 1

\* ---------------------------------------------------------------- state
VARIABLES
    pc,         \* where QueryData is: "idle", "loop", "fetch", "returned", "panic"
    req,        \* the QueryDataRequest being served
    config,     \* the settings LoadSettings returned
    idx,        \* index in req.Queries of the query of the current iteration
    response,   \* response.Responses: RefID -> DataResponse
    ret,        \* what QueryData returned
    qm,         \* the queryModel of the current query
    httpreq,    \* the request passed to client.Do
    requests,   \* every request the archive was sent, in order
    res,        \* what client.Do and ioutil.ReadAll gave for the current query
    calls,      \* the json.Unmarshal calls made on the reply of the current query
    ctxDone,    \* the context passed to QueryData is cancelled
    props,      \* QueryEditor: the object this.props.query, [id, q]
    pending,    \* QueryEditor: the object last passed to onChange, or NoObject
    openBodies, \* the number of archive responses whose Body was not closed
    rpc,        \* where handleResourceChannels is: "idle", "getpv", "write",
                \* "header", "done"
    rreq,       \* the resource request being served
    wr,         \* writeResult: its arguments and its variable code
    rw          \* the http.ResponseWriter of the resource call

vars == <<pc, req, config, idx, response, ret, qm, httpreq, requests, res, calls,
          ctxDone, props, pending, openBodies, rpc, rreq, wr, rw>>

backendVars == <<pc, req, config, idx, response, ret, qm, httpreq, requests, res, calls,
                 ctxDone, openBodies>>
editorVars == <<props, pending>>
resourceVars == <<rpc, rreq, wr, rw>>

NoResourceReq ==
    [Method |-> "", Path |-> "", RawQuery |-> [err |-> "nil", system |-> <<>>],
     PluginContext |-> [JSONData |-> [err |-> "nil", model |-> ZeroSettings]]]

NoReply == [doErr |-> FALSE, StatusCode |-> 0, readErr |-> FALSE, Body |-> <<>>]
NoReq == [PluginContext |-> [JSONData |-> [err |-> "nil", model |-> ZeroSettings]],
          Queries |-> <<>>]
NoRet == [returned |-> FALSE, response |-> <<>>, err |-> "nil"]

Init ==
    /\ pc = "idle"
    /\ req = NoReq
    /\ config = ZeroSettings
    /\ idx = 0
    /\ response = <<>>
    /\ ret = NoRet
    /\ qm = ZeroQueryModel
    /\ httpreq = NoRequest
    /\ requests = <<>>
    /\ res = NoReply
    /\ calls = <<>>
    /\ ctxDone = FALSE
    /\ props = NewObject(0, NewQuery)
    /\ pending = NoObject
    /\ openBodies = 0
    /\ rpc = "idle"
    /\ rreq = NoResourceReq
    /\ wr = NoCall
    /\ rw = NewWriter

\* QueryData with the outcome s of LoadSettings
LoadedAnyway(s) ==
    /\ pc' = "loop"
    /\ config' = s.model
    /\ idx' = 1
    /\ UNCHANGED ret
Loaded(s) ==
    IF s.err # "nil"
    THEN /\ pc' = "returned"
         /\ ret' = [returned |-> TRUE, response |-> <<>>, err |-> s.err]
         /\ UNCHANGED <<config, idx>>
    ELSE /\ pc' = "loop"
         /\ config' = s.model
         /\ idx' = 1
         /\ UNCHANGED ret

\* QueryData up to the loop over req.Queries
QueryData(Reqs) ==
    /\ pc = "idle"
    /\ \E r \in Reqs :
        /\ req' = r
        /\ Loaded(LoadSettings(r.PluginContext))
    /\ UNCHANGED <<response, qm, httpreq, requests, res, calls, ctxDone>>
    /\ UNCHANGED openBodies
    /\ UNCHANGED editorVars
    /\ UNCHANGED resourceVars

\* response.Responses[q.RefID] = res, and on to the next query
StoreAbort(q, r) ==
    /\ response' = (q.RefID :> r) @@ response
    /\ idx' = IF r.Error = "nil" THEN idx + 1 ELSE Len(req.Queries) + 1
    /\ pc' = "loop"
Store(q, r) ==
    /\ response' = (q.RefID :> r) @@ response
    /\ idx' = idx + 1
    /\ pc' = "loop"

\* ds.query goes on as o, one of QueryStart
Started(q, o) ==
    /\ qm' = o.qm
    /\ res' = NoReply
    /\ calls' = <<>>
    /\ CASE o.kind = "return" ->
                /\ Store(q, o.response)
                /\ UNCHANGED <<httpreq, requests>>
         [] o.kind = "do" ->
                /\ pc' = "fetch"
                /\ httpreq' = o.httpreq
                /\ requests' = Append(requests, o.httpreq)
                /\ UNCHANGED <<response, idx>>
         [] o.kind = "panic" ->
                /\ pc' = "panic"
                /\ UNCHANGED <<httpreq, requests, response, idx>>

\* one iteration of the loop: ds.query up to client.Do
Query ==
    /\ pc = "loop"
    /\ idx <= Len(req.Queries)
    /\ \E o \in QueryStart(req.Queries[idx], config.Server, config.DataPort) :
            Started(req.Queries[idx], o)
    /\ UNCHANGED <<req, config, ret, ctxDone>>
    /\ UNCHANGED openBodies
    /\ UNCHANGED editorVars
    /\ UNCHANGED resourceVars

\* ds.query ends with r, or panics
Finish(q, r) ==
    /\ calls' = r.calls
    /\ IF r.panic
       THEN pc' = "panic" /\ UNCHANGED <<response, idx>>
       ELSE Store(q, r.response)

\* client.Do returns and ds.query runs to its end
ClientDoRetry(Replies) ==
    /\ pc = "fetch"
    /\ \E reply \in Replies :
        /\ res' = reply
        /\ openBodies' = Opened(openBodies, reply)
        /\ IF reply.doErr /\ res = NoReply
           THEN /\ requests' = Append(requests, httpreq)
                /\ UNCHANGED <<pc, idx, response, calls>>
           ELSE /\ Finish(req.Queries[idx], QueryReply(req.Queries[idx], qm, reply))
                /\ UNCHANGED requests
    /\ UNCHANGED <<req, config, ret, qm, httpreq, ctxDone>>
    /\ UNCHANGED editorVars
    /\ UNCHANGED resourceVars
ClientDo(Replies) ==
    /\ pc = "fetch"
    /\ \E reply \in Replies :
        /\ res' = reply
        /\ openBodies' = Opened(openBodies, reply)
        /\ Finish(req.Queries[idx], QueryReply(req.Queries[idx], qm, reply))
    /\ UNCHANGED <<req, config, ret, qm, httpreq, requests, ctxDone>>
    /\ UNCHANGED editorVars
    /\ UNCHANGED resourceVars

\* the loop is over: return response, nil
ReturnResponse ==
    /\ pc = "loop"
    /\ idx > Len(req.Queries)
    /\ pc' = "returned"
    /\ ret' = [returned |-> TRUE, response |-> response, err |-> "nil"]
    /\ UNCHANGED <<req, config, idx, response, qm, httpreq, requests, res, calls, ctxDone>>
    /\ UNCHANGED openBodies
    /\ UNCHANGED editorVars
    /\ UNCHANGED resourceVars

\* the caller cancels ctx while client.Do is waiting for the archive; ds.query
\* does not pass ctx to the request nor read it
Cancel ==
    /\ pc = "fetch"
    /\ ~ctxDone
    /\ ctxDone' = TRUE
    /\ UNCHANGED <<pc, req, config, idx, response, ret, qm, httpreq, requests, res, calls>>
    /\ UNCHANGED openBodies
    /\ UNCHANGED editorVars
    /\ UNCHANGED resourceVars

\* -------------------------------------------------- QueryEditor handlers
\* onChange(object): a new object goes to the panel; it is not props.query
OnChange(q) == pending' = NewObject(1 - props.id, q)

\* onSystemChange
OnSystemChange(Items) ==
    /\ \E item \in Items : OnChange(Spread(props.q, "system", item))
    /\ UNCHANGED props
    /\ UNCHANGED backendVars
    /\ UNCHANGED resourceVars

\* onChannelChange: query.channel = item.value; query.queryText = query.channel;
\* onChange({ ...query, channel: item.value })
OnChannelChange(Items) ==
    /\ \E item \in Items :
        IF item = ""
        THEN UNCHANGED <<props, pending>>
        ELSE /\ props' = [props EXCEPT !.q.channel = Val(item),
                                        !.q.queryText = Val(item)]
             /\ OnChange(Spread(props'.q, "channel", item))
    /\ UNCHANGED backendVars
    /\ UNCHANGED resourceVars

\* onUnitConversionChange
OnUnitConversionChange(Items) ==
    /\ \E item \in Items : OnChange(Spread(props.q, "unitConversion", item))
    /\ UNCHANGED props
    /\ UNCHANGED backendVars
    /\ UNCHANGED resourceVars

\* onTransformChange
OnTransformChange(Items) ==
    /\ \E item \in Items : OnChange(Spread(props.q, "transform", item))
    /\ UNCHANGED props
    /\ UNCHANGED backendVars
    /\ UNCHANGED resourceVars

\* toggleDisableBinning: !query.disablebinning, undefined counting as false
ToggleDisableBinning ==
    /\ OnChange(Spread(props.q, "disablebinning", props.q.disablebinning # Val(TRUE)))
    /\ UNCHANGED props
    /\ UNCHANGED backendVars
    /\ UNCHANGED resourceVars

\* render: const query = defaults(this.props.query, defaultQuery)
Render ==
    /\ props' = [props EXCEPT !.q = Defaults(props.q, defaultQuery)]
    /\ props' # props
    /\ UNCHANGED pending
    /\ UNCHANGED backendVars
    /\ UNCHANGED resourceVars

\* the panel hands the object it got from onChange back as this.props.query
PropsChange ==
    /\ pending # NoObject
    /\ props' = pending
    /\ pending' = NoObject
    /\ UNCHANGED backendVars
    /\ UNCHANGED resourceVars

\* ------------------------------------------------ handleResourceChannels
\* writeResult(rw, path, val, err) is called
CallWriteResult(path, val, err) ==
    /\ rpc' = "write"
    /\ wr' = WriteResultCall(path, val, err)

\* handleResourceChannels up to client.Do of GetArchiverChannels, to its
\* call of writeResult or to its return
Routed(r, s) ==
    IF r.Method # "GET" THEN rpc' = "done" /\ UNCHANGED wr
    ELSE IF s.err # "nil" THEN CallWriteResult("?", Nil, s.err)
    ELSE IF r.Path \notin {"/channels", "/systems"} THEN CallWriteResult("?", Nil, "nil")
    ELSE IF r.Path = "/channels" /\ r.RawQuery.err # "nil"
    THEN CallWriteResult("?", Nil, r.RawQuery.err)
    ELSE IF ~ValidManageURL(s.model.Server, s.model.ManagePort)
    THEN CallWriteResult("?", Nil, "NewRequest")
    ELSE rpc' = "getpv" /\ UNCHANGED wr

HandleResourceChannels(Reqs) ==
    /\ rpc = "idle"
    /\ \E r \in Reqs :
        /\ rreq' = r
        /\ Routed(r, LoadSettings(r.PluginContext))
    /\ UNCHANGED <<rw, openBodies>>
    /\ UNCHANGED <<pc, req, config, idx, response, ret, qm, httpreq, requests, res, calls,
                   ctxDone>>
    /\ UNCHANGED editorVars

\* handleResourceChannels with the result g of GetArchiverChannels
Listed(g) ==
    IF g.err # "nil" THEN CallWriteResult("?", Nil, g.err)
    ELSE IF rreq.Path = "/channels"
    THEN CallWriteResult("channels", Map(ChannelsOf(g.channels, rreq.RawQuery.system)), "nil")
    ELSE CallWriteResult("systems", Map(SystemsOf(g.channels)), "nil")

\* client.Do of GetArchiverChannels returns and the handler goes on to its
\* call of writeResult
ArchiverChannels(Replies) ==
    /\ rpc = "getpv"
    /\ \E reply \in Replies :
        /\ openBodies' = Opened(openBodies, reply)
        /\ Listed(GetArchiverChannels(reply))
    /\ UNCHANGED <<rreq, rw>>
    /\ UNCHANGED <<pc, req, config, idx, response, ret, qm, httpreq, requests, res, calls,
                   ctxDone>>
    /\ UNCHANGED editorVars

\* writeResult up to the return of rw.Write(body)
WriteResultBody ==
    /\ rpc = "write"
    /\ \E failed \in BOOLEAN :
        /\ rw' = Write(rw, Marshal(ResultMap(wr.path, wr.val, wr.err).response), failed)
        /\ wr' = [wr EXCEPT !.code = IF failed THEN StatusInternalServerError
                                      ELSE ResultMap(wr.path, wr.val, wr.err).code]
    /\ rpc' = "header"
    /\ UNCHANGED rreq
    /\ UNCHANGED backendVars
    /\ UNCHANGED editorVars

\* writeResult's last statement, rw.WriteHeader(code), and the return of the
\* handler
WriteResultHeader ==
    /\ rpc = "header"
    /\ rw' = WriteHeader(rw, wr.code)
    /\ rpc' = "done"
    /\ UNCHANGED <<rreq, wr>>
    /\ UNCHANGED backendVars
    /\ UNCHANGED editorVars

\* --------------------------------------------------------------- inputs
\* The documents, requests and archive replies the model is run on.
IntNode(i) == [NullNode EXCEPT !.t = "num", !.n = i]
TextNode(cs) == StrNode(cs)

QueryJSON(queryText, unit, transform, disablebinning, hide, refId) ==
    ObjNode(<<Key("refId"), Key("queryText"), Key("format"), Key("unitConversion"),
              Key("transform"), Key("disablebinning"), Key("hide"),
              Key("intervalMs"), Key("maxDataPoints")>>,
            <<TextNode(refId), TextNode(queryText), TextNode(<<Wd("time_series")>>),
              IntNode(unit), IntNode(transform), BoolNode(disablebinning),
              BoolNode(hide), IntNode(1000), IntNode(100)>>)

DataQuery(refID, maxDataPoints, from, to, json) ==
    [RefID |-> refID, MaxDataPoints |-> maxDataPoints,
     TimeRange |-> [From |-> from, To |-> to], JSON |-> json]

Channel == <<Wd("k0"), Pn(":"), Wd("met"), Pn(":"), Wd("temp")>>

UnitCodes == (UNIT_CONVERT_NONE - 1)..(UNIT_CONVERT_C_TO_F + 1)
TransformCodes == (TRANSFORM_NONE - 1)..(TRANSFORM_TRUNCATE_FRAC_SECS + 1)

\* documents that are not a query object of the editor
OddJSON ==
    {MalformedJSON, NullNode, ObjNode(<<>>, <<>>), ArrNode(<<>>),
     ObjNode(<<Key("queryText"), Key("unitConversion")>>,
             <<TextNode(Channel), TextNode(<<Wd("none")>>)>>),
     ObjNode(<<Key("queryText")>>, <<TextNode(Channel)>>)}

QueryDocs ==
    {QueryJSON(text, unit, transform, FALSE, hide, <<Wd("A")>>) :
        text \in {<<>>, Channel}, unit \in UnitCodes, transform \in TransformCodes,
        hide \in BOOLEAN}
    \cup {QueryJSON(Channel, unit, TRANSFORM_DELTA, TRUE, FALSE, <<Wd("A")>>) :
            unit \in UnitCodes}
    \cup OddJSON

GoodSettings == [Server |-> "archiver", ManagePort |-> "17665", DataPort |-> "17668"]
Context(err, model) == [JSONData |-> [err |-> err, model |-> model]]
Contexts ==
    {Context("nil", GoodSettings),
     Context("nil", [GoodSettings EXCEPT !.DataPort = "data"]),
     Context("nil", ZeroSettings),
     Context("SyntaxError", ZeroSettings)}

\* batches of at most one query, over a range of 4 seconds and 2 points
Requests ==
    {[PluginContext |-> Context("nil", GoodSettings),
      Queries |-> <<DataQuery("A", 2, TicksPerSec, 5 * TicksPerSec, doc)>>] :
        doc \in QueryDocs}
    \cup {[PluginContext |-> ctx, Queries |-> qs] :
            ctx \in Contexts,
            qs \in {<<>>, <<DataQuery("A", 2, TicksPerSec, 5 * TicksPerSec,
                            QueryJSON(Channel, 0, 0, FALSE, FALSE, <<Wd("A")>>))>>}}

\* the archive's rendering of a reply
K(s) == <<QT, Wd(s), QT>>
Num(i) == <<Pn(":"), SP, Nm(i)>>
NumHalf(i) == <<Pn(":"), SP, NmFrac(i, ".5")>>
NaNSpaced == <<Pn(":"), SP, Wd("NaN")>>
NaNTight == <<Pn(":"), Wd("NaN")>>
NaNWide == <<Pn(":"), SP, SP, Wd("NaN")>>
Null == <<Pn(":"), SP, Wd("null")>>
Text(cs) == <<Pn(":"), SP, QT>> \o cs \o <<QT>>

Row(secs, nanos, val) == [secs |-> secs, nanos |-> nanos, val |-> val]

RenderRow(row) ==
    <<Pn("{"), SP>> \o K("secs") \o Num(row.secs) \o <<Pn(","), SP>>
    \o K("val") \o row.val \o <<Pn(","), SP>>
    \o K("nanos") \o Num(row.nanos) \o <<Pn(","), SP>>
    \o K("severity") \o Num(0) \o <<Pn(","), SP>>
    \o K("status") \o Num(0) \o <<SP, Pn("}")>>

RECURSIVE Join(_, _)
Join(parts, k) ==
    IF k > Len(parts) THEN <<>>
    ELSE parts[k] \o (IF k < Len(parts) THEN <<Pn(","), SP>> ELSE <<>>) \o Join(parts, k + 1)

GoodMeta ==
    <<Pn("{"), SP>> \o K("name") \o Text(Channel) \o <<Pn(","), SP>>
    \o K("PREC") \o Text(<<Nm(2)>>) \o <<SP, Pn("}")>>
MetaPREC(prec) == <<Pn("{"), SP>> \o K("PREC") \o prec \o <<SP, Pn("}")>>

RenderSet(meta, rows) ==
    <<Pn("{"), SP>> \o K("meta") \o <<Pn(":"), SP>> \o meta \o <<Pn(","), SP>>
    \o K("data") \o <<Pn(":"), SP, Pn("["), SP>>
    \o Join([i \in 1..Len(rows) |-> RenderRow(rows[i])], 1)
    \o <<SP, Pn("]"), SP, Pn("}")>>

RenderBody(sets) == <<Pn("["), SP>> \o Join(sets, 1) \o <<SP, Pn("]")>>

RowChoices ==
    {Row(1, 0, Num(1)), Row(1, 1, Num(4)), Row(3, 1, NumHalf(2)),
     Row(2, 1, NaNSpaced), Row(2, 0, NaNTight),
     Row(4, 1, Text(<<Wd("OPEN")>>))}

RowSeqs(n) == UNION {[1..k -> RowChoices] : k \in 0..n}

TwoRows == <<Row(1, 0, Num(1)), Row(3, 1, Num(4))>>
TextRow == <<Row(4, 1, Text(<<Wd("OPEN")>>))>>

OddBodies ==
    {<<>>, <<Wd("null")>>, <<Pn("["), Pn("]")>>, <<Pn("{"), Pn("}")>>,
     <<Pn("["), SP, Wd("null"), SP, Pn("]")>>,
     <<Pn("["), SP, Wd("x")>>,
     <<Wd("Service"), SP, Wd("Unavailable")>>,
     RenderBody(<<RenderSet(GoodMeta, TwoRows), RenderSet(GoodMeta, TwoRows)>>),
     RenderBody(<<RenderSet(GoodMeta, TextRow), RenderSet(GoodMeta, TextRow)>>),
     RenderBody(<<RenderSet(MetaPREC(Text(<<Wd("x")>>)), TwoRows)>>),
     RenderBody(<<RenderSet(MetaPREC(Text(<<Wd("x")>>)), TextRow)>>),
     RenderBody(<<RenderSet(MetaPREC(Num(2)), TwoRows)>>),
     RenderBody(<<RenderSet(MetaPREC(Num(2)), TextRow)>>),
     RenderBody(<<RenderSet(MetaPREC(NaNSpaced), TwoRows)>>),
     RenderBody(<<RenderSet(GoodMeta, <<Row(2, 1, NaNWide)>>)>>),
     RenderBody(<<RenderSet(GoodMeta, <<Row(1, 0, Num(1)), Row(2, 1, Null)>>)>>),
     RenderBody(<<RenderSet(GoodMeta,
                    <<Row(4, 0, Text(<<Wd("x"), Pn(":"), SP, Wd("NaN")>>))>>)>>)}

Bodies ==
    {RenderBody(<<RenderSet(GoodMeta, rows)>>) : rows \in RowSeqs(MaxRows)}
    \cup OddBodies

Reply(doErr, status, readErr, body) ==
    [doErr |-> doErr, StatusCode |-> status, readErr |-> readErr, Body |-> body]

Replies ==
    {Reply(TRUE, 0, FALSE, <<>>), Reply(FALSE, 200, TRUE, <<>>)}
    \cup {Reply(FALSE, 200, FALSE, body) : body \in Bodies}

\* ------------------------------------------------------- specifications
NextOn(Reqs, Reps) ==
    \/ QueryData(Reqs)
    \/ Query
    \/ ClientDo(Reps)
    \/ ReturnResponse

Next == NextOn(Requests, Replies)

Spec == Init /\ [][Next]_vars

\* queries of one channel over ranges of 0 to 600 seconds and a range that
\* ends before it starts, for -1 to 100 points, binning disabled or not
BinRequests ==
    {[PluginContext |-> Context("nil", GoodSettings),
      Queries |-> <<DataQuery("A", maxDataPoints, from, from + ticks,
                       QueryJSON(Channel, UNIT_CONVERT_NONE, TRANSFORM_NONE,
                                 disable, FALSE, <<Wd("A")>>))>>] :
        maxDataPoints \in {-1, 0, 1, 3, 100},
        from \in {0, TicksPerSec},
        ticks \in {0, 1, 50 * TicksPerSec, 100 * TicksPerSec - 1, 100 * TicksPerSec,
                   600 * TicksPerSec, 600 * TicksPerSec + 1, -(50 * TicksPerSec)},
        disable \in BOOLEAN}

BinReplies ==
    {Reply(TRUE, 0, FALSE, <<>>),
     Reply(FALSE, 200, FALSE, RenderBody(<<RenderSet(GoodMeta, <<Row(1, 0, Num(1))>>)>>))}

NextBin == NextOn(BinRequests, BinReplies)

SpecBin == Init /\ [][NextBin]_vars
\* replies of numbers: the values 1 2 4 7 and others, one second apart, at
\* uneven distances, and all at the same time
SampleValues == {<<1, 2, 4, 7>>, <<7, 1>>, <<32, 0>>, <<0, 32, 32>>, <<2>>, <<>>}

SampleTimes ==
    {[i \in 1..4 |-> <<i, 0>>],
     [i \in 1..4 |-> <<i * i, i % TicksPerSec>>],
     [i \in 1..4 |-> <<1, 0>>]}

NumRows(values, times) ==
    [i \in 1..Len(values) |-> Row(times[i][1], times[i][2], Num(values[i]))]

NumBodies ==
    {RenderBody(<<RenderSet(GoodMeta, NumRows(values, times))>>) :
        values \in SampleValues, times \in SampleTimes}
    \cup {RenderBody(<<RenderSet(GoodMeta, <<Row(1, 0, Num(1)), Row(2, 1, NumHalf(2))>>),
                      RenderSet(GoodMeta, <<Row(9, 0, NumHalf(4)), Row(9, 1, Num(7))>>)>>)}

NumReplies ==
    {Reply(TRUE, 0, FALSE, <<>>)} \cup {Reply(FALSE, 200, FALSE, body) : body \in NumBodies}

NumRequests ==
    {[PluginContext |-> Context("nil", GoodSettings),
      Queries |-> <<DataQuery("A", 2, TicksPerSec, 5 * TicksPerSec,
                       QueryJSON(Channel, unit, transform, FALSE, FALSE, <<Wd("A")>>))>>] :
        unit \in UNIT_CONVERT_NONE..UNIT_CONVERT_C_TO_F,
        transform \in {TRANSFORM_NONE, TRANSFORM_DELTA}}

NextNum == NextOn(NumRequests, NumReplies)

SpecNum == Init /\ [][NextNum]_vars

\* batches of up to MaxBatch queries with the RefIDs A, B, ...: a plain query,
\* a delta, an unknown transform, no channel, a hidden one, not a query
RefIDs == <<"A", "B", "C", "D">>

BatchDocs(refId) ==
    {QueryJSON(Channel, UNIT_CONVERT_NONE, TRANSFORM_NONE, FALSE, FALSE, refId),
     QueryJSON(Channel, UNIT_CONVERT_C_TO_F, TRANSFORM_DELTA, FALSE, FALSE, refId),
     QueryJSON(Channel, UNIT_CONVERT_NONE, TRANSFORM_TRUNCATE_FRAC_SECS + 1, FALSE, FALSE,
               refId),
     QueryJSON(<<>>, UNIT_CONVERT_NONE, TRANSFORM_NONE, FALSE, FALSE, refId),
     QueryJSON(Channel, UNIT_CONVERT_NONE, TRANSFORM_NONE, FALSE, TRUE, refId),
     MalformedJSON}

BatchQuery(k, doc) == DataQuery(RefIDs[k], 2, TicksPerSec, 5 * TicksPerSec, doc)

Batches(n) ==
    UNION {{[k \in 1..m |-> BatchQuery(k, docs[k])] :
                docs \in {ds \in [1..m -> UNION {BatchDocs(<<Wd(RefIDs[j])>>) : j \in 1..m}] :
                            \A k \in 1..m : ds[k] \in BatchDocs(<<Wd(RefIDs[k])>>)}} :
           m \in 0..n}

BatchRequests ==
    {[PluginContext |-> Context("nil", GoodSettings), Queries |-> qs] :
        qs \in Batches(MaxBatch)}
    \cup {[PluginContext |-> Context("SyntaxError", ZeroSettings), Queries |-> qs] :
            qs \in {b \in Batches(MaxBatch) :
                        \A k \in 1..Len(b) : b[k].JSON \notin {MalformedJSON}
                                                /\ UnmarshalQuery(b[k].JSON).qm.Transform
                                                    = TRANSFORM_NONE}}

BatchReplies ==
    {Reply(TRUE, 0, FALSE, <<>>), Reply(FALSE, 200, TRUE, <<>>),
     Reply(FALSE, 200, FALSE, RenderBody(<<RenderSet(GoodMeta, TwoRows)>>)),
     Reply(FALSE, 200, FALSE, RenderBody(<<RenderSet(GoodMeta, TextRow)>>)),
     Reply(FALSE, 200, FALSE, RenderBody(<<RenderSet(GoodMeta, <<Row(2, 0, NaNTight)>>)>>)),
     Reply(FALSE, 200, FALSE, RenderBody(<<RenderSet(GoodMeta, <<>>)>>))}

NextBatch == NextOn(BatchRequests, BatchReplies)

SpecBatch == Init /\ [][NextBatch]_vars

\* one query, the context cancelled or not while its fetch is in flight
NextCancel == NextOn(NumRequests, BinReplies) \/ Cancel

SpecCancel == Init /\ [][NextCancel]_vars

\* the derivative variants on replies of numbers: 0 and 10 ten seconds
\* apart, a slope of 1.4, slopes that are no multiple of 0.01, two samples at
\* the same time, times that go back, one sample and none
DerivRowSeqs ==
    {<<Row(0, 0, Num(0)), Row(10, 0, Num(10))>>,
     <<Row(0, 0, Num(0)), Row(5, 0, Num(7))>>,
     <<Row(1, 0, Num(1)), Row(4, 1, Num(2)), Row(4, 1, Num(5)), Row(7, 0, Num(0))>>,
     <<Row(1, 0, NumHalf(2)), Row(2, 0, Num(1)), Row(3, 0, Num(1)), Row(2, 0, Num(4))>>,
     <<Row(2, 0, Num(1)), Row(2, 0, Num(1))>>,
     <<Row(1, 1, Num(3))>>,
     <<>>}

DerivBodies ==
    {RenderBody(<<RenderSet(GoodMeta, rows)>>) : rows \in DerivRowSeqs}
    \cup {RenderBody(<<RenderSet(GoodMeta, <<Row(1, 0, Num(1)), Row(2, 1, NumHalf(2))>>),
                      RenderSet(GoodMeta, <<Row(9, 0, NumHalf(4)), Row(9, 1, Num(7))>>)>>)}

DerivReplies ==
    {Reply(TRUE, 0, FALSE, <<>>)} \cup {Reply(FALSE, 200, FALSE, body) : body \in DerivBodies}

DerivRequests ==
    {[PluginContext |-> Context("nil", GoodSettings),
      Queries |-> <<DataQuery("A", 2, TicksPerSec, 5 * TicksPerSec,
                       QueryJSON(Channel, unit, transform, FALSE, FALSE, <<Wd("A")>>))>>] :
        unit \in {UNIT_CONVERT_NONE, UNIT_CONVERT_C_TO_K, UNIT_CONVERT_F_TO_C},
        transform \in Derivatives}

NextDeriv == NextOn(DerivRequests, DerivReplies)

SpecDeriv == Init /\ [][NextDeriv]_vars

\* no transform, the plain derivative, the delta and the truncation on replies
\* of numbers (also with a NaN among them), of strings and of no JSON, each
\* sent with the status 200, 404 and 500
StatusCodes == {200, 404, 500}

SeriesBodies ==
    DerivBodies
    \cup {RenderBody(<<RenderSet(GoodMeta, rows)>>) :
            rows \in {<<Row(1, 0, Num(1)), Row(2, 1, NaNSpaced), Row(3, 1, Num(4))>>,
                      <<Row(2, 1, NaNSpaced)>>,
                      <<Row(1, 0, Num(1)), Row(2, 0, NaNTight)>>,
                      <<Row(4, 1, Text(<<Wd("OPEN")>>)), Row(2, 0, Text(<<Wd("SHUT")>>))>>}}
    \cup {<<Wd("Service"), SP, Wd("Unavailable")>>, <<>>}

SeriesReplies ==
    {Reply(TRUE, 0, FALSE, <<>>)}
    \cup {Reply(FALSE, status, FALSE, body) :
            status \in StatusCodes, body \in SeriesBodies}
    \cup {Reply(FALSE, status, TRUE, <<>>) : status \in StatusCodes}

SeriesRequests ==
    {[PluginContext |-> Context("nil", GoodSettings),
      Queries |-> <<DataQuery("A", 2, TicksPerSec, 5 * TicksPerSec,
                       QueryJSON(Channel, unit, transform, FALSE, FALSE, <<Wd("A")>>))>>] :
        unit \in {UNIT_CONVERT_NONE, UNIT_CONVERT_F_TO_C},
        transform \in {TRANSFORM_NONE, TRANSFORM_FIRST_DERIVATVE, TRANSFORM_DELTA,
                       TRANSFORM_TRUNCATE_FRAC_SECS}}

NextSeries == NextOn(SeriesRequests, SeriesReplies)

SpecSeries == Init /\ [][NextSeries]_vars

\* resource calls: GET and POST of /channels (for a system, for every system,
\* with a query string that does not parse), /systems and another path, with
\* good settings, settings that do not load and a port that is no number; the
\* archive answers with a list of names, an empty list, no JSON, or not at all
Name(a, b, c) == <<Wd(a), Pn(":"), Wd(b), Pn(":"), Wd(c)>>

PvLists ==
    {<<>>,
     <<Name("k0", "met", "temp"), Name("k0", "met", "hum"),
       Name("k1", "dcs", "axe") \o <<Pn(":"), Wd("az")>>, <<Wd("k2"), Pn(":"), Wd("x")>>>>}

PvReplies ==
    {Reply(TRUE, 0, FALSE, [err |-> "nil", pvs |-> <<>>]),
     Reply(FALSE, 200, TRUE, [err |-> "nil", pvs |-> <<>>]),
     Reply(FALSE, 500, FALSE, [err |-> "SyntaxError", pvs |-> <<>>])}
    \cup {Reply(FALSE, 200, FALSE, [err |-> "nil", pvs |-> pvs]) : pvs \in PvLists}

ResourceRequests ==
    {[Method |-> method, Path |-> path, RawQuery |-> rawQuery, PluginContext |-> ctx] :
        method \in {"GET", "POST"},
        path \in {"/channels", "/systems", "/health"},
        rawQuery \in {[err |-> "nil", system |-> <<>>],
                      [err |-> "nil", system |-> <<Wd("k0"), Pn(":"), Wd("met"), Pn(":")>>],
                      [err |-> "invalid URL escape", system |-> <<>>]},
        ctx \in {Context("nil", GoodSettings),
                 Context("nil", [GoodSettings EXCEPT !.ManagePort = "manage"]),
                 Context("SyntaxError", ZeroSettings)}}

\* next to them, a batch of one plain query
PlainRequests ==
    {[PluginContext |-> Context("nil", GoodSettings),
      Queries |-> <<BatchQuery(1, QueryJSON(Channel, UNIT_CONVERT_NONE, TRANSFORM_NONE,
                                            FALSE, FALSE, <<Wd("A")>>))>>]}

NextResource ==
    \/ HandleResourceChannels(ResourceRequests)
    \/ ArchiverChannels(PvReplies)
    \/ WriteResultBody
    \/ WriteResultHeader
    \/ NextOn(PlainRequests, BatchReplies)

SpecResource == Init /\ [][NextResource]_vars

\* the editor of one query row: two systems, two channels and the empty
\* selection, two unit conversions, two transforms
SystemItems == {"k0", "k1"}
ChannelItems == {"", "k0:met:temp", "k1:dcs:az"}
UnitItems == {UNIT_CONVERT_NONE, UNIT_CONVERT_DEG_TO_RAD}
TransformItems == {TRANSFORM_NONE, TRANSFORM_DELTA}

NextEditor ==
    \/ OnSystemChange(SystemItems)
    \/ OnChannelChange(ChannelItems)
    \/ OnUnitConversionChange(UnitItems)
    \/ OnTransformChange(TransformItems)
    \/ ToggleDisableBinning
    \/ Render
    \/ PropsChange

SpecEditor == Init /\ [][NextEditor]_vars

\* ------------------------------------------------------------ properties
\* The query whose execution was started last, and what became of it.
Started1 == pc \in {"fetch", "panic"} \/ (pc \in {"loop", "returned"} /\ idx > 1)
CurIdx == IF pc \in {"fetch", "panic"} THEN idx ELSE idx - 1
CurQuery == req.Queries[CurIdx]
\* ds.query has returned for the query started last
Answered == pc \in {"loop", "returned"} /\ idx > 1
CurResponse == response[CurQuery.RefID]
\* the archive was sent the request of that query and client.Do has returned
Fetched == pc \in {"loop", "returned", "panic"} /\ res # NoReply
\* the body of the reply was read
BodyRead == Fetched /\ ~res.doErr /\ ~res.readErr

IsPlaceholder(frame, query) ==
    /\ Len(frame.Fields) = 1
    /\ frame.Fields[1].Type = "time"
    /\ frame.Fields[1].Values = <<query.TimeRange.From, query.TimeRange.To>>

TimeFields(frame) == {k \in 1..Len(frame.Fields) : frame.Fields[k].Type = "time"}
ValueFields(frame) == {k \in 1..Len(frame.Fields) : frame.Fields[k].Type # "time"}

\* a frame with one time field and one value field, of the same length
IsSeries(frame) ==
    /\ Len(frame.Fields) = 2
    /\ Cardinality(TimeFields(frame)) = 1
    /\ Cardinality(ValueFields(frame)) = 1
    /\ \A t \in TimeFields(frame) : \A v \in ValueFields(frame) :
          Len(frame.Fields[t].Values) = Len(frame.Fields[v].Values)

SeriesLen(frame) == Len(frame.Fields[1].Values)

\* C1: every frame of every response is the two-timestamp placeholder or has
\* one time field and one value field of the same length
C1_EqualLengths ==
    \A id \in DOMAIN response :
        \A k \in 1..Len(response[id].Frames) :
            \/ IsSeries(response[id].Frames[k])
            \/ Cardinality(ValueFields(response[id].Frames[k])) = 0

\* a delta of two samples and a string series of two samples were returned
C1_Witness ==
    /\ Answered /\ BodyRead
    /\ Len(CurResponse.Frames) = 1
    /\ IsSeries(CurResponse.Frames[1])
    /\ SeriesLen(CurResponse.Frames[1]) = 1
    /\ qm.Transform = TRANSFORM_DELTA

\* C2: whatever the query and the reply, ds.query returns and its response
\* holds exactly one frame, a series or the placeholder
C2_AlwaysASeries ==
    /\ pc # "panic"
    /\ Answered =>
          /\ Len(CurResponse.Frames) = 1
          /\ \/ IsSeries(CurResponse.Frames[1])
             \/ IsPlaceholder(CurResponse.Frames[1], CurQuery)

\* the request of the query started last was handed to client.Do
Sent == pc = "fetch" \/ Fetched

RangeTicks == CurQuery.TimeRange.To - CurQuery.TimeRange.From

\* N = floor(a / b)
IsFloor(N, a, b) ==
    IF b > 0 THEN N * b <= a /\ a < (N + 1) * b
             ELSE N * b >= a /\ a > (N + 1) * b

BinnedPv(N, channel) == [fn |-> "lastSample", N |-> <<"n", N>>, channel |-> channel]
RawPv(channel) == [fn |-> "", N |-> <<"n", 0>>, channel |-> channel]

\* C4: with binning not disabled and maxPoints not 0, the pv parameter is
\* lastSample_N(channel) for N = floor(seconds of the range / maxPoints) if
\* N >= 1, and the channel alone if N < 1
C4_BinnedPv ==
    (Sent /\ ~qm.DisableBinning /\ CurQuery.MaxDataPoints # 0) =>
        \E N \in (-Abs(RangeTicks) - 1)..(Abs(RangeTicks) + 1) :
            /\ IsFloor(N, RangeTicks, TicksPerSec * CurQuery.MaxDataPoints)
            /\ httpreq.pv = IF N >= 1 THEN BinnedPv(N, qm.QueryText)
                                      ELSE RawPv(qm.QueryText)

\* 600 seconds for 100 points were requested as lastSample_6
C4_Witness ==
    /\ Sent /\ ~qm.DisableBinning
    /\ RangeTicks = 600 * TicksPerSec
    /\ CurQuery.MaxDataPoints = 100
    /\ httpreq.pv = BinnedPv(6, Channel)

\* C5: with disablebinning set the pv parameter is the channel alone,
\* whatever the range and maxPoints
C5_DisabledIsRaw == (Sent /\ qm.DisableBinning) => httpreq.pv = RawPv(qm.QueryText)

\* 600 seconds for 100 points were requested raw
C5_Witness ==
    /\ Sent /\ qm.DisableBinning
    /\ RangeTicks = 600 * TicksPerSec
    /\ CurQuery.MaxDataPoints = 100
    /\ httpreq.pv = RawPv(Channel)

\* the query started last got as far as building its request
Requesting ==
    /\ Started1
    /\ UnmarshalQuery(CurQuery.JSON).err = "nil"
    /\ ~qm.Hide
    /\ qm.QueryText # <<>>

DecodeFailed == BodyRead /\ calls # <<>> /\ calls[Len(calls)][3] # "nil"
UnknownUnit == ~KnownUnitConversion(qm.UnitConversion)
UnknownTransform == qm.Transform \notin TRANSFORM_NONE..TRANSFORM_TRUNCATE_FRAC_SECS

\* the fatal conditions of a query
Fatal ==
    /\ Requesting
    /\ \/ ~ValidHostPort(config.Server, config.DataPort)
       \/ Fetched /\ (res.doErr \/ res.readErr)
       \/ DecodeFailed
       \/ BodyRead /\ (UnknownUnit \/ UnknownTransform)

\* ds.query returned the placeholder alone, with an error
PlaceholderAndError ==
    /\ Answered
    /\ Len(CurResponse.Frames) = 1
    /\ IsPlaceholder(CurResponse.Frames[1], CurQuery)
    /\ CurResponse.Error # "nil"

\* C3: a query that hits a fatal condition returns the placeholder frame alone
\* and the cause as response.Error
C3_FatalGivesPlaceholder == (Fatal /\ pc # "fetch") => PlaceholderAndError

\* C6: a query with an unknown unit conversion code that got a reply ends with
\* the placeholder and an error, whatever the payload
C6_UnknownUnitFails == (Requesting /\ Fetched /\ UnknownUnit) => PlaceholderAndError

\* C7: a query with an unknown transform code that got a reply ends with the
\* placeholder and an error, whatever the payload
C7_UnknownTransformFails == (Requesting /\ Fetched /\ UnknownTransform) => PlaceholderAndError

\* C8: the first json.Unmarshal is into the numeric schema, on the sanitized
\* body; there is a second one exactly if the first failed with an
\* *UnmarshalTypeError, and it is into the string schema on the same bytes; if
\* the last one failed the query ends with the placeholder and that error
C8_DecodeOrder ==
    BodyRead =>
        /\ Len(calls) \in {1, 2}
        /\ calls[1][1] = "PVData"
        /\ calls[1][2] = Sanitize(res.Body)
        /\ calls[1][3] = Unmarshal(Sanitize(res.Body), "PVData").err
        /\ Len(calls) = 2 <=> calls[1][3] = "UnmarshalTypeError"
        /\ Len(calls) = 2 =>
              /\ calls[2][1] = "PVStringData"
              /\ calls[2][2] = calls[1][2]
              /\ calls[2][3] = Unmarshal(Sanitize(res.Body), "PVStringData").err
        /\ calls[Len(calls)][3] # "nil" =>
              /\ Answered
              /\ CurResponse = Placeholder(CurQuery, calls[Len(calls)][3])

\* the string schema was tried and failed as well
C8_Witness ==
    /\ BodyRead /\ Answered
    /\ Len(calls) = 2
    /\ calls[2][3] = "UnmarshalTypeError"
    /\ CurResponse = Placeholder(CurQuery, "UnmarshalTypeError")

\* the string path was taken
StringPathTaken == BodyRead /\ Answered /\ Len(calls) = 2 /\ calls[2][3] = "nil"

StringSamples == Flatten(Unmarshal(Sanitize(res.Body), "PVStringData").sets, 1)

\* C9: on the string path the frame holds, for every sample, the time
\* secs + nanos and the string of the sample, whatever the codes of the query
C9_StringsAsIs ==
    StringPathTaken =>
        /\ Len(CurResponse.Frames) = 1
        /\ CurResponse.Frames[1].Fields[1].Values =
              [i \in 1..Len(StringSamples) |->
                  Unix(StringSamples[i].Secs, StringSamples[i].Nanos)]
        /\ CurResponse.Frames[1].Fields[2].Values =
              [i \in 1..Len(StringSamples) |-> StringSamples[i].Val]

RECURSIVE BackOverWs(_, _)
BackOverWs(b, i) == IF i >= 1 /\ b[i] = SP THEN BackOverWs(b, i - 1) ELSE i

\* b[i] is a NaN that stands as the value of a member "val"
IsNaNValue(b, i) ==
    /\ b[i] = Wd("NaN")
    /\ BackOverWs(b, i - 1) >= 4
    /\ b[BackOverWs(b, i - 1)] = Pn(":")
    /\ SubSeq(b, BackOverWs(b, i - 1) - 3, BackOverWs(b, i - 1) - 1) = K("val")

NaNValues(b) == {i \in 1..Len(b) : IsNaNValue(b, i)}

\* the body with null for each of these NaN
NaNAsNull(b) == [i \in 1..Len(b) |-> IF IsNaNValue(b, i) THEN Wd("null") ELSE b[i]]

\* the NaN values of the body aside, it decodes
DecodesButForNaN(b) == Decode(NaNAsNull(b)).path # "failed"

SpacedNaN(b) == \A i \in NaNValues(b) : i >= 3 /\ b[i - 1] = SP /\ b[i - 2] = Pn(":")

NumericDecoded == BodyRead /\ Len(calls) = 1 /\ calls[1][3] = "nil"

\* the samples of that reply
NumericSamples == Flatten(Unmarshal(Sanitize(res.Body), "PVData").sets, 1)

KnownCodes == ~UnknownUnit /\ ~UnknownTransform

\* the length the transform gives a series of n samples
LengthAfter(transform, n) ==
    IF transform \in {TRANSFORM_NONE, TRANSFORM_TRUNCATE_FRAC_SECS} THEN n ELSE n - 1

\* C11: a numeric payload of N samples and known codes end in the placeholder
\* or in a series of length N (none, truncate) or N - 1 (derivatives, delta),
\* for every N >= 0
C11_SeriesLength ==
    (Requesting /\ NumericDecoded /\ KnownCodes) =>
        /\ Answered
        /\ Len(CurResponse.Frames) = 1
        /\ \/ IsPlaceholder(CurResponse.Frames[1], CurQuery)
           \/ /\ IsSeries(CurResponse.Frames[1])
              /\ SeriesLen(CurResponse.Frames[1]) =
                    LengthAfter(qm.Transform, Len(NumericSamples))
\* x is (num/den) * pi^p, den > 0
IsRat(x, num, den, p) ==
    /\ x[2] > 0 /\ x[4] = 0
    /\ x[1] * den = num * x[2]
    /\ num = 0 \/ x[3] = p

\* x = a - b
IsDifference(x, a, b) ==
    IsRat(x, a[1] * b[2] - b[1] * a[2], a[2] * b[2], IF a[1] = 0 THEN b[3] ELSE a[3])

FrameValues == CurResponse.Frames[1].Fields[1].Values
FrameTimes == CurResponse.Frames[1].Fields[2].Values

\* the values and times of the samples before the transform
Converted == Values(NumericSamples, qm.UnitConversion)
SampleTime(i) == Unix(NumericSamples[i].Secs, NumericSamples[i].Nanos)

\* C12: the delta of N >= 1 samples is out[i-1] = v[i] - v[i-1] at time t[i]
\* for i in 1..N-1, whatever the times are; 1 2 4 7 gives 1 2 3
C12_Delta ==
    (Requesting /\ NumericDecoded /\ ~UnknownUnit /\ qm.Transform = TRANSFORM_DELTA
        /\ Len(NumericSamples) >= 1) =>
        /\ Answered
        /\ Len(CurResponse.Frames) = 1
        /\ IsSeries(CurResponse.Frames[1])
        /\ Len(FrameValues) = Len(NumericSamples) - 1
        /\ \A i \in 1..(Len(NumericSamples) - 1) :
              /\ IsDifference(FrameValues[i], Converted[i + 1], Converted[i])
              /\ FrameTimes[i] = SampleTime(i + 1)
        /\ ([i \in 1..Len(NumericSamples) |-> NumericSamples[i].Val]
                = <<Flt(1, 1, 0), Flt(2, 1, 0), Flt(4, 1, 0), Flt(7, 1, 0)>>
            /\ qm.UnitConversion = UNIT_CONVERT_NONE)
           => FrameValues = <<Flt(1, 1, 0), Flt(2, 1, 0), Flt(3, 1, 0)>>

\* 1 2 4 7 at the seconds 1, 4, 9 and 16 gave 1 2 3 at the last three times
C12_Witness ==
    /\ Answered /\ NumericDecoded
    /\ qm.Transform = TRANSFORM_DELTA /\ qm.UnitConversion = UNIT_CONVERT_NONE
    /\ Len(NumericSamples) = 4
    /\ NumericSamples[2].Secs = 4 /\ NumericSamples[3].Secs = 9
    /\ FrameValues = <<Flt(1, 1, 0), Flt(2, 1, 0), Flt(3, 1, 0)>>
    /\ FrameTimes = <<SampleTime(2), SampleTime(3), SampleTime(4)>>

\* x is the conversion of the sample value v = a/b by the code
IsConversion(code, x, v) ==
    CASE code = UNIT_CONVERT_NONE -> x = v
      [] code = UNIT_CONVERT_DEG_TO_RAD -> IsRat(x, v[1], v[2] * 180, 1)
      [] code = UNIT_CONVERT_RAD_TO_DEG -> IsRat(x, v[1] * 180, v[2], -1)
      [] code = UNIT_CONVERT_RAD_TO_ARCSEC -> IsRat(x, v[1] * 3600 * 180, v[2], -1)
      [] code = UNIT_CONVERT_K_TO_C -> IsRat(x, 20 * v[1] + 5463 * v[2], 20 * v[2], 0)
      [] code = UNIT_CONVERT_C_TO_K -> IsRat(x, 20 * v[1] - 5463 * v[2], 20 * v[2], 0)
      [] code = UNIT_CONVERT_F_TO_C -> IsRat(x, 5 * (v[1] - 32 * v[2]), 9 * v[2], 0)
      [] code = UNIT_CONVERT_C_TO_F -> IsRat(x, 9 * v[1] + 160 * v[2], 5 * v[2], 0)

\* C13: with a known unit conversion code and no transform the series holds,
\* for every sample in order, its time and the value the formula of the code
\* gives: v, v*pi/180, v*180/pi, v*3600*180/pi, v+273.15, v-273.15,
\* (v-32)*5/9, v*9/5+32; code 6 on 32 is 0 and code 7 on 0 is 32
C13_UnitConversion ==
    (Requesting /\ NumericDecoded /\ ~UnknownUnit /\ qm.Transform = TRANSFORM_NONE) =>
        /\ Answered
        /\ Len(CurResponse.Frames) = 1
        /\ IsSeries(CurResponse.Frames[1])
        /\ Len(FrameValues) = Len(NumericSamples)
        /\ \A i \in 1..Len(NumericSamples) :
              /\ IsConversion(qm.UnitConversion, FrameValues[i], NumericSamples[i].Val)
              /\ FrameTimes[i] = SampleTime(i)
              /\ (qm.UnitConversion = UNIT_CONVERT_F_TO_C
                    /\ NumericSamples[i].Val = Flt(32, 1, 0)) => FrameValues[i] = FZero
              /\ (qm.UnitConversion = UNIT_CONVERT_C_TO_F
                    /\ NumericSamples[i].Val = FZero) => FrameValues[i] = Flt(32, 1, 0)

\* 32 and 0 under code 7 gave 89.6 and 32, at the times of the samples
C13_Witness ==
    /\ Answered /\ NumericDecoded
    /\ qm.Transform = TRANSFORM_NONE /\ qm.UnitConversion = UNIT_CONVERT_C_TO_F
    /\ Len(NumericSamples) = 2
    /\ NumericSamples[1].Val = Flt(32, 1, 0) /\ NumericSamples[2].Val = FZero
    /\ FrameValues = <<Flt(448, 5, 0), Flt(32, 1, 0)>>
    /\ FrameTimes = <<SampleTime(1), SampleTime(2)>>
\* the error a failed fetch leaves in the response
FetchError(reply) == IF reply.doErr THEN "client.Do" ELSE "ReadAll"

\* C14: a request goes to the archive only in the step that starts a query;
\* the next step of that query ends it, without another request, and after a
\* failed fetch the placeholder with the error is its response; no query is
\* started twice
C14_OneGet ==
    [][/\ requests' # requests =>
            /\ requests' = Append(requests, httpreq')
            /\ pc = "loop" /\ pc' = "fetch" /\ idx' = idx
       /\ pc = "fetch" =>
            /\ requests' = requests
            /\ pc' \in {"loop", "panic"}
            /\ pc' = "loop" => idx' = idx + 1
            /\ (res'.doErr \/ res'.readErr) =>
                  /\ pc' = "loop"
                  /\ response'[req.Queries[idx].RefID]
                        = Placeholder(req.Queries[idx], FetchError(res'))
       /\ pc # "idle" => idx' >= idx]_vars

\* two queries were sent one request each, the fetch of the first one failed
C14_Witness ==
    /\ pc = "returned"
    /\ Len(req.Queries) = 2
    /\ Len(requests) = 2
    /\ response["A"].Error = "client.Do"
    /\ response["B"].Error = "nil"

\* what ds.query returns for the query alone when the archive answers reply
Alone(query, reply) ==
    QueryReply(query, UnmarshalQuery(query.JSON).qm, reply).response

BatchRefIDs == {req.Queries[k].RefID : k \in 1..Len(req.Queries)}

\* C15: the response of a query that got a reply, failed or not, is stored
\* under its own RefID, is what the query and the reply alone determine, and
\* leaves the responses of the other queries as they are; the next query is
\* then executed, and QueryData returns an entry for every RefID of the batch
C15_Independent ==
    /\ [](pc = "returned" /\ ret.err = "nil" =>
            /\ idx = Len(req.Queries) + 1
            /\ DOMAIN ret.response = BatchRefIDs)
    /\ [][(pc = "fetch" /\ pc' # "panic") =>
            /\ pc' = "loop" /\ idx' = idx + 1
            /\ DOMAIN response' = DOMAIN response \cup {req.Queries[idx].RefID}
            /\ response'[req.Queries[idx].RefID] = Alone(req.Queries[idx], res')
            /\ \A id \in DOMAIN response \ {req.Queries[idx].RefID} :
                  response'[id] = response[id]]_vars

\* the fetch of A failed and B, executed after it, has its series
C15_Witness ==
    /\ pc = "returned" /\ ret.err = "nil"
    /\ Len(req.Queries) = 2
    /\ response["A"] = Placeholder(req.Queries[1], "client.Do")
    /\ response["B"].Error = "nil"
    /\ Len(response["B"].Frames) = 1
    /\ IsSeries(response["B"].Frames[1])
    /\ SeriesLen(response["B"].Frames[1]) = 2

\* the query started last returned a series of the numeric or the string path
SeriesReturned ==
    /\ Answered /\ BodyRead
    /\ calls[Len(calls)][3] = "nil"
    /\ CurResponse.Error = "nil"

\* C18: the response stored under the RefID of a query holds one series when
\* the numeric or the string path returned one, and that series carries the
\* refId and the channel name of the query
C18_Correlated ==
    SeriesReturned =>
        /\ Len(CurResponse.Frames) = 1
        /\ IsSeries(CurResponse.Frames[1])
        /\ CurResponse.Frames[1].RefID = UnmarshalQuery(CurQuery.JSON).qm.RefId
        /\ CurResponse.Frames[1].RefID = <<Wd(CurQuery.RefID)>>
        /\ CurResponse.Frames[1].Name = UnmarshalQuery(CurQuery.JSON).qm.QueryText

\* the second query of a batch returned a numeric series with the refId B
C18_Witness ==
    /\ SeriesReturned
    /\ CurIdx = 2
    /\ Len(calls) = 1
    /\ CurResponse.Frames[1].RefID = <<Wd("B")>>
    /\ CurResponse.Frames[1].Name = Channel
    /\ response["A"].Frames # <<>> /\ response["A"].Frames[1].RefID = <<Wd("A")>>
\* the query started last decoded and has no channel name
EmptyChannel ==
    /\ Started1
    /\ UnmarshalQuery(CurQuery.JSON).err = "nil"
    /\ UnmarshalQuery(CurQuery.JSON).qm.QueryText = <<>>

\* ds.query returned the placeholder with no error and sent no request
PlaceholderNoRequest ==
    /\ Answered
    /\ CurResponse = Placeholder(CurQuery, "nil")
    /\ res = NoReply
    /\ Len(requests) < CurIdx

\* C16 as stated: a query without a channel name gets the placeholder with no
\* error, and no request is sent for it
C16_EmptyChannel == EmptyChannel => PlaceholderNoRequest

\* C16, amended: the same for the queries that are not hidden
C16_EmptyChannelShown == (EmptyChannel /\ ~qm.Hide) => PlaceholderNoRequest

\* a query with queryText "" and hide false got the placeholder
C16_Witness ==
    /\ EmptyChannel /\ ~qm.Hide
    /\ CurQuery.JSON \in QueryDocs \ OddJSON
    /\ PlaceholderNoRequest
    /\ pc = "returned"

\* C17: when LoadSettings fails QueryData returns the error and no response,
\* with no query executed and no request sent; otherwise the settings it
\* loaded before the first query are the ones of every query of the batch
C17_SettingsOnce ==
    /\ [](pc # "idle" =>
            IF LoadSettings(req.PluginContext).err # "nil"
            THEN /\ pc = "returned"
                 /\ ret = [returned |-> TRUE, response |-> <<>>,
                           err |-> LoadSettings(req.PluginContext).err]
                 /\ response = <<>> /\ requests = <<>> /\ idx = 0
                 /\ qm = ZeroQueryModel /\ res = NoReply
            ELSE /\ config = LoadSettings(req.PluginContext).model
                 /\ \A k \in 1..Len(requests) : requests[k].server = config.Server
                                               /\ requests[k].port = config.DataPort)
    /\ [][pc # "idle" => (config' = config /\ req' = req)]_vars

\* QueryData returned the error for a batch of two queries
C17_Witness ==
    /\ pc = "returned"
    /\ ret.err = "error reading settings"
    /\ Len(req.Queries) = 2
    /\ requests = <<>>
\* C19: when ctx is cancelled while the fetch of a query is in flight, the
\* fetch ends with the cancellation as its error, not with the reply of the
\* archive or the timeout of the client
C19_CancelAborts ==
    [][(pc = "fetch" /\ ctxDone) =>
            /\ pc' = "loop"
            /\ response'[req.Queries[idx].RefID]
                    = Placeholder(req.Queries[idx], "context canceled")]_vars

\* C20: the members of a query object are never written after the object
\* exists: this.props.query of the editor changes only by becoming another
\* object, and the request and its queries are not changed by QueryData
C20_ReadOnly ==
    [][/\ props'.id = props.id => props'.q = props.q
       /\ pc # "idle" => req' = req]_vars

\* x is the IEEE quotient of a - b by ticks / TicksPerSec seconds
IsSlope(x, a, b, ticks) ==
    LET num == a[1] * b[2] - b[1] * a[2]
        den == a[2] * b[2]
    IN  IF ticks = 0
        THEN x[2] = 0 /\ x[1] = (IF num > 0 THEN 1 ELSE IF num < 0 THEN -1 ELSE 0)
        ELSE IsRat(x, num * TicksPerSec, den * ticks, 0)

\* x is within 1/(2 * scale) of the quotient of a - b by ticks / TicksPerSec
NearSlope(x, a, b, ticks, scale) ==
    LET num == (a[1] * b[2] - b[1] * a[2]) * TicksPerSec
        den == a[2] * b[2] * ticks
    IN  IF ticks = 0 THEN IsSlope(x, a, b, ticks)
        ELSE /\ x[2] > 0 /\ x[4] = 0
             /\ 2 * scale * Abs(x[1] * den - num * x[2]) <= Abs(x[2] * den)

\* the number of decimal digits a derivative variant keeps, as a power of ten
Scale(transform) ==
    IF transform = TRANSFORM_FIRST_DERIVATVE_1HZ THEN 1
    ELSE IF transform = TRANSFORM_FIRST_DERIVATVE_10HZ THEN 10
    ELSE 100

DerivativeAnswered ==
    /\ Requesting /\ NumericDecoded /\ ~UnknownUnit
    /\ qm.Transform \in Derivatives
    /\ Len(NumericSamples) >= 1

\* C21: a derivative variant on N >= 1 samples gives N - 1 points; point i-1
\* has the time t[i] of the later sample and, for the plain variant, the value
\* (v[i] - v[i-1]) / (t[i] - t[i-1]) with the difference of the times in
\* seconds; a rounded variant is within half a unit of its last digit of that
\* value; 0 and 10 ten seconds apart give the one point 1 at the second 10
C21_FirstDerivative ==
    DerivativeAnswered =>
        /\ Answered
        /\ Len(CurResponse.Frames) = 1
        /\ IsSeries(CurResponse.Frames[1])
        /\ Len(FrameValues) = Len(NumericSamples) - 1
        /\ \A i \in 1..(Len(NumericSamples) - 1) :
              /\ FrameTimes[i] = SampleTime(i + 1)
              /\ IF qm.Transform = TRANSFORM_FIRST_DERIVATVE
                 THEN IsSlope(FrameValues[i], Converted[i + 1], Converted[i],
                              SampleTime(i + 1) - SampleTime(i))
                 ELSE NearSlope(FrameValues[i], Converted[i + 1], Converted[i],
                                SampleTime(i + 1) - SampleTime(i), Scale(qm.Transform))
        /\ (qm.UnitConversion = UNIT_CONVERT_NONE
              /\ [i \in 1..Len(NumericSamples) |->
                    <<NumericSamples[i].Secs, NumericSamples[i].Nanos, NumericSamples[i].Val>>]
                 = <<<<0, 0, FZero>>, <<10, 0, Flt(10, 1, 0)>>>>)
           => (FrameValues = <<Flt(1, 1, 0)>> /\ FrameTimes = <<Unix(10, 0)>>)

\* the plain derivative of 0 and 10 ten seconds apart gave 1 at the second 10
C21_Witness ==
    /\ DerivativeAnswered /\ Answered
    /\ qm.Transform = TRANSFORM_FIRST_DERIVATVE /\ qm.UnitConversion = UNIT_CONVERT_NONE
    /\ Len(NumericSamples) = 2
    /\ NumericSamples[1].Secs = 0 /\ NumericSamples[2].Secs = 10
    /\ NumericSamples[2].Val = Flt(10, 1, 0)
    /\ FrameValues = <<Flt(1, 1, 0)>>
    /\ FrameTimes = <<Unix(10, 0)>>

\* x is a whole number of units of 1/scale
IsMultiple(x, scale) == x[2] > 0 /\ x[3] = 0 /\ x[4] = 0 /\ (x[1] * scale) % x[2] = 0

\* C22: the 1Hz, 10Hz and 100Hz variants give, for every finite slope, the
\* multiple of 1, 0.1 and 0.01 nearest to it, and the plain variant gives the
\* slope itself; a slope of 1.4 under the 1Hz variant gives 1
C22_Rounding ==
    DerivativeAnswered =>
        /\ Answered
        /\ Len(CurResponse.Frames) = 1
        /\ Len(FrameValues) = Len(NumericSamples) - 1
        /\ \A i \in 1..(Len(NumericSamples) - 1) :
              LET ticks == SampleTime(i + 1) - SampleTime(i)
                  diff == FSub(Converted[i + 1], Converted[i])
              IN  /\ qm.Transform = TRANSFORM_FIRST_DERIVATVE =>
                        IsSlope(FrameValues[i], Converted[i + 1], Converted[i], ticks)
                  /\ (qm.Transform # TRANSFORM_FIRST_DERIVATVE /\ ticks # 0) =>
                        /\ IsMultiple(FrameValues[i], Scale(qm.Transform))
                        /\ NearSlope(FrameValues[i], Converted[i + 1], Converted[i], ticks,
                                     Scale(qm.Transform))
                  /\ (qm.Transform = TRANSFORM_FIRST_DERIVATVE_1HZ /\ ticks # 0
                        /\ IsRat(diff, 7 * ticks, 5 * TicksPerSec, 0)) =>
                        FrameValues[i] = Flt(1, 1, 0)

\* 0 and 7 five seconds apart, a slope of 1.4, gave 1 under the 1Hz variant
C22_Witness ==
    /\ DerivativeAnswered /\ Answered
    /\ qm.UnitConversion = UNIT_CONVERT_NONE
    /\ Len(NumericSamples) = 2
    /\ NumericSamples[1].Secs = 0 /\ NumericSamples[2].Secs = 5
    /\ NumericSamples[2].Val = Flt(7, 1, 0)
    /\ qm.Transform = TRANSFORM_FIRST_DERIVATVE_1HZ
    /\ FrameValues = <<Flt(1, 1, 0)>>

\* the times of the string frame, whose first field is the time
StringTimes == CurResponse.Frames[1].Fields[1].Values

\* C23: under the truncation code the series has, for every sample in order,
\* the time secs with no sub-second part and the converted value, and as many
\* points as there are samples; under the other codes a point has the time
\* secs plus nanos of its sample (the later one for a derivative or a delta)
C23_Truncate ==
    /\ (Requesting /\ NumericDecoded /\ ~UnknownUnit
            /\ qm.Transform \in {TRANSFORM_NONE, TRANSFORM_TRUNCATE_FRAC_SECS}) =>
          /\ Answered
          /\ Len(CurResponse.Frames) = 1
          /\ IsSeries(CurResponse.Frames[1])
          /\ FrameValues = Converted
          /\ Len(FrameTimes) = Len(NumericSamples)
          /\ \A i \in 1..Len(NumericSamples) :
                IF qm.Transform = TRANSFORM_TRUNCATE_FRAC_SECS
                THEN /\ FrameTimes[i] = NumericSamples[i].Secs * TicksPerSec
                     /\ FrameTimes[i] % TicksPerSec = 0
                ELSE FrameTimes[i] = NumericSamples[i].Secs * TicksPerSec
                                        + NumericSamples[i].Nanos
    /\ (Requesting /\ NumericDecoded /\ ~UnknownUnit /\ Len(NumericSamples) >= 1
            /\ qm.Transform \in Derivatives \cup {TRANSFORM_DELTA}) =>
          /\ Answered
          /\ Len(CurResponse.Frames) = 1
          /\ \A i \in 1..(Len(NumericSamples) - 1) :
                FrameTimes[i] = NumericSamples[i + 1].Secs * TicksPerSec
                                    + NumericSamples[i + 1].Nanos
    /\ (Requesting /\ StringPathTaken) =>
          /\ Len(CurResponse.Frames) = 1
          /\ Len(StringTimes) = Len(StringSamples)
          /\ \A i \in 1..Len(StringSamples) :
                StringTimes[i] = StringSamples[i].Secs * TicksPerSec
                    + (IF qm.Transform = TRANSFORM_TRUNCATE_FRAC_SECS THEN 0
                       ELSE StringSamples[i].Nanos)

\* samples at 1.0 s, 4.5 s, 4.5 s and 7.0 s came back at 1, 4, 4 and 7 s with
\* their values converted from Fahrenheit
C23_Witness ==
    /\ Answered /\ NumericDecoded
    /\ qm.Transform = TRANSFORM_TRUNCATE_FRAC_SECS
    /\ qm.UnitConversion = UNIT_CONVERT_F_TO_C
    /\ Len(NumericSamples) = 4
    /\ NumericSamples[2].Nanos # 0
    /\ FrameTimes = <<1 * TicksPerSec, 4 * TicksPerSec, 4 * TicksPerSec, 7 * TicksPerSec>>
    /\ FrameValues = Converted

\* the data sets of the reply as the numeric schema and the string schema
\* decode them
NumericSets == Unmarshal(Sanitize(res.Body), "PVData").sets
StringSets == Unmarshal(Sanitize(res.Body), "PVStringData").sets

RECURSIVE RowsBefore(_, _)
\* the number of rows of the data sets before the j-th
RowsBefore(sets, j) == IF j <= 1 THEN 0 ELSE Len(sets[j - 1].Data) + RowsBefore(sets, j - 1)

\* some sample of the reply is earlier than the one before it
TimesGoBack(sets) ==
    \E j \in 1..Len(sets) : \E r \in 2..Len(sets[j].Data) :
        Unix(sets[j].Data[r].Secs, sets[j].Data[r].Nanos)
            < Unix(sets[j].Data[r - 1].Secs, sets[j].Data[r - 1].Nanos)

\* C24: with no transform, row r of data set j of the reply is the point
\* number (rows of the sets before j) + r of the series, with its own time and
\* its converted value, whether or not the times of the reply go up; the
\* same holds for a reply of strings
C24_ReplyOrder ==
    /\ (Requesting /\ NumericDecoded /\ ~UnknownUnit /\ qm.Transform = TRANSFORM_NONE) =>
          /\ Answered
          /\ Len(CurResponse.Frames) = 1
          /\ Len(FrameValues) = RowsBefore(NumericSets, Len(NumericSets) + 1)
          /\ \A j \in 1..Len(NumericSets) : \A r \in 1..Len(NumericSets[j].Data) :
                LET k == RowsBefore(NumericSets, j) + r
                    row == NumericSets[j].Data[r]
                IN  /\ FrameTimes[k] = Unix(row.Secs, row.Nanos)
                    /\ IsConversion(qm.UnitConversion, FrameValues[k], row.Val)
    /\ (Requesting /\ StringPathTaken /\ qm.Transform = TRANSFORM_NONE) =>
          /\ Len(CurResponse.Frames) = 1
          /\ Len(StringTimes) = RowsBefore(StringSets, Len(StringSets) + 1)
          /\ \A j \in 1..Len(StringSets) : \A r \in 1..Len(StringSets[j].Data) :
                LET k == RowsBefore(StringSets, j) + r
                    row == StringSets[j].Data[r]
                IN  /\ StringTimes[k] = Unix(row.Secs, row.Nanos)
                    /\ CurResponse.Frames[1].Fields[2].Values[k] = row.Val

\* a reply whose last sample is earlier than the one before it came back in
\* the order of the reply
C24_Witness ==
    /\ Answered /\ NumericDecoded /\ qm.Transform = TRANSFORM_NONE
    /\ Len(NumericSets) = 1 /\ Len(NumericSets[1].Data) = 4
    /\ TimesGoBack(NumericSets)
    /\ Len(FrameTimes) = 4
    /\ FrameTimes[4] < FrameTimes[3]

\* the reply with another status code
WithStatus(reply, status) == [reply EXCEPT !.StatusCode = status]

\* the response holds a series of the numbers or strings of the reply
IsData(r) ==
    /\ r.Error = "nil"
    /\ Len(r.Frames) = 1
    /\ IsSeries(r.Frames[1])

\* C25: the response of a query whose reply was read is the one the same
\* body gives under every other status code, 2xx or not: a series exactly if
\* the body decodes into one of the two schemas, the placeholder with the
\* error of the decoding if not
C25_StatusIgnored ==
    (Requesting /\ Answered /\ Fetched /\ ~res.doErr) =>
        /\ \A status \in StatusCodes \cup {204, 302} :
              LET other == QueryReply(CurQuery, qm, WithStatus(res, status))
              IN  ~other.panic /\ other.response = CurResponse
        /\ ~res.readErr =>
              /\ ~DecodeFailed <=> IsData(CurResponse)
              /\ DecodeFailed <=> CurResponse = Placeholder(CurQuery, calls[Len(calls)][3])

\* a reply with the status 500 and a body of two numbers gave a series of two
\* points
C25_Witness ==
    /\ Requesting /\ Answered /\ BodyRead
    /\ res.StatusCode = 500
    /\ qm.Transform = TRANSFORM_NONE
    /\ IsData(CurResponse)
    /\ Len(FrameValues) = 2

\* the query started last decoded and its hide flag is true
Hidden ==
    /\ Started1
    /\ UnmarshalQuery(CurQuery.JSON).err = "nil"
    /\ UnmarshalQuery(CurQuery.JSON).qm.Hide

\* C26: a query that decodes with hide true is answered with no frame and no
\* error, and nothing is sent to the archive for it, with or without a
\* channel name and whatever its unit conversion and transform codes
C26_HiddenIsEmpty ==
    Hidden =>
        /\ Answered
        /\ CurResponse.Frames = <<>>
        /\ CurResponse.Error = "nil"
        /\ res = NoReply
        /\ Len(requests) < CurIdx

\* a hidden query with a channel name, the delta transform and a unit
\* conversion was answered that way
C26_Witness ==
    /\ Hidden /\ Answered
    /\ qm.QueryText = Channel
    /\ qm.Transform = TRANSFORM_DELTA
    /\ qm.UnitConversion = UNIT_CONVERT_C_TO_F
    /\ CurResponse = NoResponse
    /\ requests = <<>>

\* C27: for every range and every maxPoints, 0 and negative ones included,
\* the pv parameter is the channel alone or lastSample_N(channel) with N a
\* positive integer, the floor of the seconds of the range over maxPoints
C27_WindowAtLeastOne ==
    Sent =>
        \/ httpreq.pv = RawPv(qm.QueryText)
        \/ /\ CurQuery.MaxDataPoints # 0
           /\ \E N \in 1..(Abs(RangeTicks) + 1) :
                /\ IsFloor(N, RangeTicks, TicksPerSec * CurQuery.MaxDataPoints)
                /\ httpreq.pv = BinnedPv(N, qm.QueryText)

\* the number of data rows of the body up to position i: each row has one
\* member "val"
RowsUpTo(b, i) == Cardinality({k \in 1..i : b[k] = Wd("val")})

\* the rows of the body whose value is NaN
NaNRows(b) == {RowsUpTo(b, i) : i \in NaNValues(b)}

NumericNone == Requesting /\ NumericDecoded /\ ~UnknownUnit /\ qm.Transform = TRANSFORM_NONE

\* as many points as the reply has data rows
AllRowsKept ==
    /\ Answered
    /\ Len(CurResponse.Frames) = 1
    /\ IsSeries(CurResponse.Frames[1])
    /\ Len(FrameValues) = RowsUpTo(res.Body, Len(res.Body))

\* C28 as stated: on the numeric path with no transform the series has one
\* point for every data row of the reply, and the point of a row whose value
\* was NaN has the value 0
C28_NaNIsZero ==
    NumericNone =>
        /\ AllRowsKept
        /\ \A r \in NaNRows(res.Body) : FrameValues[r] = FZero

\* C28, amended: the same, the point of a row whose value was NaN having the
\* value the unit conversion gives for 0 (0 itself with no conversion)
C28_NaNIsConvertedZero ==
    NumericNone =>
        /\ AllRowsKept
        /\ \A r \in NaNRows(res.Body) :
              /\ IsConversion(qm.UnitConversion, FrameValues[r], FZero)
              /\ qm.UnitConversion = UNIT_CONVERT_NONE => FrameValues[r] = FZero
              /\ FrameTimes[r] = SampleTime(r)

\* 1, NaN and 4 came back as three points, the second one 0 with no
\* conversion
C28_Witness ==
    /\ NumericNone /\ Answered
    /\ qm.UnitConversion = UNIT_CONVERT_NONE
    /\ NaNRows(res.Body) = {2}
    /\ Len(FrameValues) = 3
    /\ FrameValues = <<Flt(1, 1, 0), FZero, Flt(4, 1, 0)>>

\* the status writeResult is to answer with, and the body
ExpectedStatus == IF wr.err # "nil" THEN StatusBadRequest ELSE StatusOK
ExpectedBody ==
    IF wr.err # "nil" THEN Marshal([key |-> "error", val |-> Str(wr.err)])
    ELSE Marshal([key |-> wr.path, val |-> wr.val])

\* C29: when writeResult has returned and its body went out, the response
\* has the status 400 and the body {"error": ...} if err was not nil, the
\* status 200 and {<path>: val} if it was nil, and in every case the status
\* of the response is the code writeResult computed
C29_StatusTakesEffect ==
    (rpc = "done" /\ wr # NoCall) =>
        /\ rw.wroteHeader
        /\ rw.status = wr.code
        /\ rw.body # <<>> =>
              /\ rw.body = <<ExpectedBody>>
              /\ rw.status = ExpectedStatus

\* C30: whenever query and GetArchiverChannels are not waiting in client.Do,
\* no response they obtained from the archive has its body still open
C30_BodiesClosed == (pc # "fetch" /\ rpc # "getpv") => openBodies = 0
====
